---- MODULE Spec2Model ----
(***************************************************************************)
(* GraphRAG question-answering core of app/graphrag_agent.py:              *)
(* GraphRAGAgent.answer (vector search, graph search, context assembly,    *)
(* answer generation) and GraphRAGAgent.add_entities_to_graph.             *)
(*                                                                         *)
(* Text is a sequence of one-character strings, so that slicing, lower(),  *)
(* replace(), split() and substring tests are computed unit by unit.       *)
(* Distances and relevance scores are fixed-point numbers in units of      *)
(* 1/Scale.                                                                *)
(***************************************************************************)
EXTENDS Integers, Sequences, FiniteSets, TLC

VARIABLES
    pc,              \* position of the current call
    question,        \* answer(question, ...)
    n_results,       \* answer(..., n_vector_results, ...)
    include_graph,   \* answer(..., include_graph)
    driver,          \* self.driver: TRUE = a driver object, FALSE = None
    index,           \* vector store: the hits a search ranks, best first
    nodes,           \* graph store: sequence of nodes
    edges,           \* graph store: sequence of relationships
    vector_context,  \* answer: vector_context
    graph_context,   \* answer: graph_context
    graph_paths,     \* answer: graph_paths
    keywords,        \* _graph_search: keywords
    ki,              \* _graph_search: position of the keyword loop
    entities,        \* _graph_search: entities
    paths,           \* _graph_search: paths
    full_context,    \* answer: full_context
    answer,          \* _generate_answer: first component of the returned pair
    citations,       \* _generate_answer: second component of the returned pair
    result,          \* the value answer() / add_entities_to_graph() returns
    trace,           \* external calls issued by the current call, in order
    faults,          \* the external calls of the current call that raised
    batch,           \* add_entities_to_graph: extraction_results
    cursor,          \* add_entities_to_graph: position in the batch
    added,           \* add_entities_to_graph: added_entities, added_relations
    stats,           \* the value add_entities_to_graph returned
    calls,           \* number of add_entities_to_graph calls made so far
    writers,         \* concurrent add_entities_to_graph calls on one store
    origin,          \* the graph before the concurrent calls started
    response         \* graphrag_qa: the body handed to jsonify

vars == <<pc, question, n_results, include_graph, driver, index, nodes, edges,
          vector_context, graph_context, graph_paths, keywords, ki, entities,
          paths, full_context, answer, citations, result, trace, faults, batch,
          cursor,
          added, stats, calls, writers, origin, response>>

Min(a, b) == IF a < b THEN a ELSE b

----------------------------------------------------------------------------
(* Text primitives                                                         *)

UpperChars == <<"A","B","C","D","E","F","G","H","I","J","K","L","M","N","O","P","Q","R","S","T","U","V","W","X","Y","Z">>
LowerChars == <<"a","b","c","d","e","f","g","h","i","j","k","l","m","n","o","p","q","r","s","t","u","v","w","x","y","z">>

\* str.lower() on one character
LowerChar(c) ==
    IF \E i \in 1..Len(UpperChars) : UpperChars[i] = c
    THEN LowerChars[CHOOSE i \in 1..Len(UpperChars) : UpperChars[i] = c]
    ELSE c

\* str.lower()
Lower(s) == [i \in 1..Len(s) |-> LowerChar(s[i])]

\* str.replace(c, '') for a one-character c
RemoveChar(s, c) == SelectSeq(s, LAMBDA x : x # c)

Whitespace == {" ", "\t", "\n"}

\* str.split(): maximal runs of non-whitespace characters, in order
RECURSIVE SplitFrom(_, _, _, _)
SplitFrom(s, i, cur, acc) ==
    IF i > Len(s)
    THEN IF cur = <<>> THEN acc ELSE Append(acc, cur)
    ELSE IF s[i] \in Whitespace
         THEN SplitFrom(s, i + 1, <<>>, IF cur = <<>> THEN acc ELSE Append(acc, cur))
         ELSE SplitFrom(s, i + 1, Append(cur, s[i]), acc)

Split(s) == SplitFrom(s, 1, <<>>, <<>>)

\* str.strip() = '' : the text holds whitespace only
IsBlank(s) == \A i \in 1..Len(s) : s[i] \in Whitespace

\* s[:n]
Prefix(s, n) == SubSeq(s, 1, Min(Len(s), n))

\* pat occurs in s at position p
OccursAt(s, pat, p) ==
    /\ p >= 1
    /\ p + Len(pat) - 1 <= Len(s)
    /\ \A j \in 1..Len(pat) : s[p + j - 1] = pat[j]

\* pat in s
Contains(s, pat) == \E p \in 1..(Len(s) - Len(pat) + 1) : OccursAt(s, pat, p)

\* "\n".join(parts)
RECURSIVE Join(_)
Join(parts) ==
    IF parts = <<>> THEN <<>>
    ELSE IF Len(parts) = 1 THEN parts[1]
    ELSE parts[1] \o <<"\n">> \o Join(Tail(parts))

----------------------------------------------------------------------------
(* _extract_keywords                                                       *)

stopwords == {
    <<"w","h","a","t">>, <<"w","h","o">>, <<"w","h","e","r","e">>,
    <<"w","h","e","n">>, <<"w","h","y">>, <<"h","o","w">>,
    <<"i","s">>, <<"a","r","e">>, <<"w","a","s">>,
    <<"w","e","r","e">>, <<"t","h","e">>, <<"a">>,
    <<"a","n">>, <<"a","n","d">>, <<"o","r">>,
    <<"b","u","t">>, <<"i","n">>, <<"o","n">>,
    <<"a","t">>, <<"t","o">>, <<"f","o","r">>,
    <<"o","f">>, <<"w","i","t","h">>, <<"b","y">>,
    <<"a","b","o","u","t">>, <<"t","e","l","l">>, <<"m","e">>,
    <<"s","h","o","w">>, <<"g","i","v","e">>, <<"e","x","p","l","a","i","n">>,
    <<"d","e","s","c","r","i","b","e">>, <<"c","o","m","p","a","n","y">>, <<"c","o","m","p","a","n","i","e","s">>,
    <<"s","t","o","c","k">>, <<"q","u","e","l">>, <<"q","u","e","l","l","e">>,
    <<"q","u","e","l","s">>, <<"q","u","e","l","l","e","s">>, <<"e","s","t">>,
    <<"s","o","n","t">>, <<"l","e">>, <<"l","a">>,
    <<"l","e","s">>, <<"u","n">>, <<"u","n","e">>,
    <<"d","e","s">>, <<"d","u">>, <<"d","e">>,
    <<"e","t">>, <<"o","u">>, <<"m","a","i","s">>,
    <<"d","a","n","s">>, <<"s","u","r">>, <<"p","o","u","r">>,
    <<"a","v","e","c">>, <<"p","a","r">>, <<"e","n","t","r","e","p","r","i","s","e">>,
    <<"e","n","t","r","e","p","r","i","s","e","s">>
}

MinKeywordLen == 2

\* mutant of KeepWord: tokens of two characters are kept as well
KeepWordShort(w) == w \notin stopwords /\ Len(w) >= MinKeywordLen

\* the filter of the list comprehension
KeepWord(w) == w \notin stopwords /\ Len(w) > MinKeywordLen

extract_keywords(query) ==
    LET words == Split(RemoveChar(RemoveChar(Lower(query), "?"), ","))
    IN  SelectSeq(words, KeepWord)

----------------------------------------------------------------------------
(* Values                                                                  *)

\* a key that a mapping does not hold, and the value None held under a key
ABSENT == <<"<absent>">>
NONE   == <<"<None>">>

\* dict.get(key, default) on a mapping modelled as a record of optional keys
Get(m, key, default) == IF m[key] = ABSENT THEN default ELSE m[key]

\* truth value of a text-or-None value
Truthy(v) == v # ABSENT /\ v # NONE /\ v # <<>>

\* str(v) inside an f-string
Str(v) == IF v = NONE THEN <<"N","o","n","e">> ELSE v

Digits == <<"0","1","2","3","4","5","6","7","8","9">>

\* str(n) for a natural number n
RECURSIVE IntToText(_)
IntToText(n) ==
    IF n < 10 THEN <<Digits[n + 1]>>
    ELSE IntToText(n \div 10) \o <<Digits[(n % 10) + 1]>>

\* format(n, ",.0f") for a natural number n: groups of three digits
RECURSIVE Grouped(_)
Grouped(n) ==
    IF n < 1000 THEN IntToText(n)
    ELSE LET r == n % 1000
         IN  Grouped(n \div 1000) \o <<",">>
               \o <<Digits[(r \div 100) + 1], Digits[((r \div 10) % 10) + 1],
                    Digits[(r % 10) + 1]>>

\* str.strip()
RECURSIVE LStrip(_)
LStrip(s) == IF s # <<>> /\ Head(s) \in Whitespace THEN LStrip(Tail(s)) ELSE s
RECURSIVE RStrip(_)
RStrip(s) ==
    IF s # <<>> /\ s[Len(s)] \in Whitespace THEN RStrip(SubSeq(s, 1, Len(s) - 1)) ELSE s
Strip(s) == RStrip(LStrip(s))

----------------------------------------------------------------------------
(* Scores: fixed point, Scale units = 1.0                                  *)

Scale == 10000
RoundDigits == 3
RoundUnit == Scale \div (10 ^ RoundDigits)

\* round(x, 3); an exact tie goes to the even neighbour
round(x) ==
    LET q == x \div RoundUnit
        r == x % RoundUnit
    IN  IF 2 * r < RoundUnit THEN q * RoundUnit
        ELSE IF 2 * r > RoundUnit THEN (q + 1) * RoundUnit
        ELSE IF q % 2 = 0 THEN q * RoundUnit ELSE (q + 1) * RoundUnit

----------------------------------------------------------------------------
(* Vector store and _vector_search                                         *)

\* metadata mapping of a stored document ("none": the store holds None)
Meta(t, s, u) == [none |-> FALSE, ticker |-> t, section |-> s, url |-> u]
NoneMeta == [none |-> TRUE, ticker |-> ABSENT, section |-> ABSENT, url |-> ABSENT]
EmptyMeta == Meta(ABSENT, ABSENT, ABSENT)

\* `if meta:` -- a mapping that is not None and holds at least one key
MetaTruthy(m) ==
    ~m.none /\ (m.ticker # ABSENT \/ m.section # ABSENT \/ m.url # ABSENT)

\* one (document, metadata, distance) triple of a search result
Hit(doc, meta, has_dist, dist) ==
    [doc |-> doc, meta |-> meta, has_dist |-> has_dist, dist |-> dist]

\* a document of L units; unit i is determined by i
Doc(L) == [i \in 1..L |-> LowerChars[((i - 1) % 26) + 1]]

\* collection.query(n_results = n): the n best hits, best first
search(idx, n) == Prefix(idx, n)

MaxDoc == 2000

\* mutant of Relevance: the score is not flipped (distance used as score)
RelevanceUnflipped(hit) == IF hit.has_dist /\ hit.dist # 0 THEN hit.dist ELSE 0

\* 1 - dist if dist else 0
Relevance(hit) == IF hit.has_dist /\ hit.dist # 0 THEN Scale - hit.dist ELSE 0

\* the dict appended to contexts for one hit
Evidence(hit) ==
    [content     |-> IF Truthy(hit.doc) THEN Prefix(hit.doc, MaxDoc) ELSE <<>>,
     metadata    |-> hit.meta,
     relevance   |-> Relevance(hit),
     source_type |-> "vector"]

\* the list _vector_search returns when the store answers
vector_search(results) == [i \in 1..Len(results) |-> Evidence(results[i])]

----------------------------------------------------------------------------
(* Graph store and the queries of _graph_search                            *)

\* a node: one label and its properties (ABSENT: the property is not set;
\* market_cap / revenue 0: not set)
Node(label, name, ticker, sector, industry, description, market_cap, revenue, source) ==
    [label |-> label, name |-> name, ticker |-> ticker, sector |-> sector,
     industry |-> industry, description |-> description,
     market_cap |-> market_cap, revenue |-> revenue, source |-> source]

CompanyLabel == <<"C","o","m","p","a","n","y">>

Company(name, ticker, sector, industry) ==
    Node(CompanyLabel, name, ticker, sector, industry, ABSENT, 0, 0, ABSENT)

\* a relationship between the nodes at positions src and dst
Edge(src, rel, dst) == [src |-> src, rel |-> rel, dst |-> dst]

MatchFields == {"name", "ticker", "sector", "industry"}

\* WHERE toLower(c.f) CONTAINS toLower($keyword) OR ... over a :Company node
NodeMatches(n, keyword) ==
    /\ n.label = CompanyLabel
    /\ \E f \in MatchFields :
          n[f] # ABSENT /\ Contains(Lower(n[f]), Lower(keyword))

ProbeLimit == 3

\* mutant of MatchCompanies: the query has no LIMIT
MatchCompaniesUnlimited(ns, keyword) ==
    SelectSeq(ns, LAMBDA n : NodeMatches(n, keyword))

\* MATCH (c:Company) WHERE ... RETURN c LIMIT 3, in store order
MatchCompanies(ns, keyword) ==
    Prefix(SelectSeq(ns, LAMBDA n : NodeMatches(n, keyword)), ProbeLimit)

\* the dicts appended to entities for one probe
ProbeEntities(ns, keyword) ==
    LET found == MatchCompanies(ns, keyword)
    IN  [i \in 1..Len(found) |->
            [type |-> "Company", data |-> found[i], source_type |-> "graph"]]

MaxKeywords == 5

\* keywords[:5]
ProbedKeywords(kws) == Prefix(kws, MaxKeywords)

\* mutant of AnchorTicker: the last matched entity is expanded
AnchorTickerLast(ents) ==
    IF ents = <<>> THEN ABSENT ELSE ents[Len(ents)].data.ticker

\* entities[0].get("data", {}).get("ticker"), ABSENT when entities is empty
AnchorTicker(ents) ==
    IF ents = <<>> THEN ABSENT ELSE ents[1].data.ticker

PathLimit == 10

\* MATCH (c:Company {ticker: $ticker})-[r]->(target) RETURN ... LIMIT 10
OutgoingEdges(ns, es, ticker) ==
    Prefix(SelectSeq(es, LAMBDA e :
               ns[e.src].label = CompanyLabel /\ ns[e.src].ticker = ticker),
           PathLimit)

\* mutant of FetchPaths: the source of a path is taken from its target
FetchPathsFromTarget(ns, es, ticker) ==
    LET found == OutgoingEdges(ns, es, ticker)
    IN  [i \in 1..Len(found) |->
            [source      |-> ns[found[i].dst].name,
             relation    |-> found[i].rel,
             target_type |-> ns[found[i].dst].label,
             target      |-> IF ns[found[i].dst].name = ABSENT THEN NONE
                             ELSE ns[found[i].dst].name]]

\* the dicts appended to paths for one relationship fetch
FetchPaths(ns, es, ticker) ==
    LET found == OutgoingEdges(ns, es, ticker)
    IN  [i \in 1..Len(found) |->
            [source      |-> ticker,
             relation    |-> found[i].rel,
             target_type |-> ns[found[i].dst].label,
             target      |-> IF ns[found[i].dst].name = ABSENT THEN NONE
                             ELSE ns[found[i].dst].name]]

----------------------------------------------------------------------------
(* _build_context                                                          *)

MaxSource == 1500
MaxEntities == 5
MaxDescription == 500

\* meta.get("ticker", meta.get("section", "unknown"))
SourceLabel(meta) == Get(meta, "ticker", Get(meta, "section", <<"u","n","k","n","o","w","n">>))

\* f"\n[Source {i}: {source}]"
SourceMarker(i, meta) ==
    <<"\n","[","S","o","u","r","c","e"," ">> \o IntToText(i) \o <<":"," ">> \o Str(SourceLabel(meta)) \o <<"]">>

\* mutant of DocumentParts: the content is appended without the cap
RECURSIVE DocumentPartsUncut(_, _)
DocumentPartsUncut(vc, i) ==
    IF i > Len(vc) THEN <<>>
    ELSE <<SourceMarker(i, vc[i].metadata), vc[i].content>>
           \o DocumentPartsUncut(vc, i + 1)

\* the two parts appended for evidence item i
RECURSIVE DocumentParts(_, _)
DocumentParts(vc, i) ==
    IF i > Len(vc) THEN <<>>
    ELSE <<SourceMarker(i, vc[i].metadata), Prefix(vc[i].content, MaxSource)>>
           \o DocumentParts(vc, i + 1)

\* the parts appended for one graph entity
EntityParts(entity) ==
    IF entity.type # "Company" THEN <<>>
    ELSE LET data == entity.data
         IN  << <<"\n","C","o","m","p","a","n","y",":"," ">> \o Str(Get(data, "name", <<"N","/","A">>)),
                <<" "," ","T","i","c","k","e","r",":"," ">> \o Str(Get(data, "ticker", <<"N","/","A">>)),
                <<" "," ","S","e","c","t","o","r",":"," ">> \o Str(Get(data, "sector", <<"N","/","A">>)),
                <<" "," ","I","n","d","u","s","t","r","y",":"," ">> \o Str(Get(data, "industry", <<"N","/","A">>)) >>
             \o (IF Truthy(data.description)
                 THEN << <<" "," ","D","e","s","c","r","i","p","t","i","o","n",":"," ">> \o Prefix(data.description, MaxDescription) >>
                 ELSE <<>>)
             \o (IF data.market_cap # 0
                 THEN << <<" "," ","M","a","r","k","e","t"," ","C","a","p",":"," ","$">> \o Grouped(data.market_cap) >>
                 ELSE <<>>)
             \o (IF data.revenue # 0
                 THEN << <<" "," ","R","e","v","e","n","u","e",":"," ","$">> \o Grouped(data.revenue) >>
                 ELSE <<>>)

RECURSIVE GraphParts(_)
GraphParts(gc) ==
    IF gc = <<>> THEN <<>> ELSE EntityParts(Head(gc)) \o GraphParts(Tail(gc))

DocumentHeader == <<"=","=","="," ","D","O","C","U","M","E","N","T"," ","C","O","N","T","E","X","T"," ","=","=","=">>
GraphHeader == <<"\n","\n","=","=","="," ","K","N","O","W","L","E","D","G","E"," ","G","R","A","P","H"," ","C","O","N","T","E","X","T"," ","=","=","=">>

\* meta.get(...) on a metadata that is None raises AttributeError
build_context_raises(vc) == \E i \in 1..Len(vc) : vc[i].metadata.none

\* mutant of build_context: the document header is emitted unconditionally
build_context_always_header(vc, gc) ==
    Join(<<DocumentHeader>> \o DocumentParts(vc, 1)
         \o (IF gc # <<>>
             THEN <<GraphHeader>> \o GraphParts(Prefix(gc, MaxEntities))
             ELSE <<>>))

\* "\n".join(parts)
build_context(vc, gc) ==
    Join((IF vc # <<>> THEN <<DocumentHeader>> \o DocumentParts(vc, 1) ELSE <<>>)
         \o (IF gc # <<>>
             THEN <<GraphHeader>> \o GraphParts(Prefix(gc, MaxEntities))
             ELSE <<>>))

----------------------------------------------------------------------------
(* _generate_answer                                                        *)

Refusal == <<"I"," ","d","o","n","'","t"," ","h","a","v","e"," ","e","n","o","u","g","h"," ","i","n","f","o","r","m","a","t","i","o","n"," ","t","o"," ","a","n","s","w","e","r"," ","t","h","i","s"," ","q","u","e","s","t","i","o","n","."," ","P","l","e","a","s","e"," ","i","n","g","e","s","t"," ","s","o","m","e"," ","d","o","c","u","m","e","n","t","s"," ","f","i","r","s","t",".">>

MaxPrompt == 6000

\* mutant of NoContext: the pre-check is skipped
NoContextNever(context) == FALSE

\* `if not context.strip()`
NoContext(context) == IsBlank(context)

PromptHead == <<"Y","o","u"," ","a","r","e"," ","a"," ","h","e","l","p","f","u","l"," ","a","s","s","i","s","t","a","n","t"," ","a","n","s","w","e","r","i","n","g"," ","q","u","e","s","t","i","o","n","s"," ","b","a","s","e","d"," ","o","n"," ","t","h","e"," ","p","r","o","v","i","d","e","d"," ","c","o","n","t","e","x","t",".","\n","U","s","e"," ","O","N","L","Y"," ","t","h","e"," ","i","n","f","o","r","m","a","t","i","o","n"," ","f","r","o","m"," ","t","h","e"," ","c","o","n","t","e","x","t"," ","b","e","l","o","w"," ","t","o"," ","a","n","s","w","e","r","."," ","I","f"," ","t","h","e"," ","c","o","n","t","e","x","t"," ","d","o","e","s","n","'","t"," ","c","o","n","t","a","i","n","\n","e","n","o","u","g","h"," ","i","n","f","o","r","m","a","t","i","o","n",","," ","s","a","y"," ","s","o"," ","c","l","e","a","r","l","y",".","\n","\n","C","O","N","T","E","X","T",":","\n">>

PromptQuestion == <<"\n","\n","Q","U","E","S","T","I","O","N",":"," ">>

PromptTail == <<"\n","\n","I","n","s","t","r","u","c","t","i","o","n","s",":","\n","1","."," ","A","n","s","w","e","r"," ","t","h","e"," ","q","u","e","s","t","i","o","n"," ","d","i","r","e","c","t","l","y"," ","a","n","d"," ","c","o","n","c","i","s","e","l","y","\n","2","."," ","R","e","f","e","r","e","n","c","e"," ","s","p","e","c","i","f","i","c"," ","s","o","u","r","c","e","s"," ","w","h","e","n"," ","p","o","s","s","i","b","l","e"," ","(","e",".","g",".",","," ","\"","A","c","c","o","r","d","i","n","g"," ","t","o"," ","[","S","o","u","r","c","e"," ","1","]",".",".",".","\"",")","\n","3","."," ","I","f"," ","m","u","l","t","i","p","l","e"," ","s","o","u","r","c","e","s"," ","a","g","r","e","e",","," ","m","e","n","t","i","o","n"," ","t","h","a","t","\n","4","."," ","I","f"," ","y","o","u","'","r","e"," ","u","n","c","e","r","t","a","i","n",","," ","e","x","p","r","e","s","s"," ","t","h","a","t"," ","u","n","c","e","r","t","a","i","n","t","y","\n","5","."," ","K","e","e","p"," ","t","h","e"," ","a","n","s","w","e","r"," ","f","o","c","u","s","e","d"," ","a","n","d"," ","r","e","l","e","v","a","n","t","\n","\n","A","N","S","W","E","R",":">>

\* mutant of Prompt: the end of a long context is kept, not its beginning
PromptKeepingTail(q, context) ==
    PromptHead
        \o SubSeq(context, Len(context) - Min(Len(context), MaxPrompt) + 1, Len(context))
        \o PromptQuestion \o q \o PromptTail

\* the f-string prompt
Prompt(q, context) ==
    PromptHead \o Prefix(context, MaxPrompt) \o PromptQuestion \o q \o PromptTail

\* the citation built from one evidence item
Citation(ctx) ==
    [source    |-> Get(ctx.metadata, "ticker", <<"U","n","k","n","o","w","n">>),
     section   |-> Get(ctx.metadata, "section", <<"d","o","c","u","m","e","n","t">>),
     url       |-> Get(ctx.metadata, "url", <<>>),
     relevance |-> round(ctx.relevance)]

\* mutant of Cited: every evidence item is cited, whatever its metadata
CitedAll(ctx) == TRUE

\* `if meta:` inside the citation loop
Cited(ctx) == MetaTruthy(ctx.metadata)

\* mutant of CitationsOf: the citations come out in reverse order
RECURSIVE CitationsReversed(_)
CitationsReversed(vr) ==
    IF vr = <<>> THEN <<>>
    ELSE CitationsReversed(Tail(vr))
           \o (IF Cited(Head(vr)) THEN <<Citation(Head(vr))>> ELSE <<>>)

\* the citations list built after the model answered
RECURSIVE CitationsOf(_)
CitationsOf(vr) ==
    IF vr = <<>> THEN <<>>
    ELSE (IF Cited(Head(vr)) THEN <<Citation(Head(vr))>> ELSE <<>>)
           \o CitationsOf(Tail(vr))

ErrorPrefix == <<"E","r","r","o","r"," ","g","e","n","e","r","a","t","i","n","g"," ","a","n","s","w","e","r",":"," ">>

\* what ollama.generate can do: answer with some text under 'response',
\* answer without that key (KeyError), or raise
LLMOutcomes ==
    { [ok |-> TRUE,  text |-> <<" "," ","A","c","c","o","r","d","i","n","g"," ","t","o"," ","[","S","o","u","r","c","e"," ","1","]"," ","t","h","e"," ","m","a","i","n"," ","r","i","s","k"," ","i","s"," ","r","e","g","u","l","a","t","i","o","n",".","\n">>],
      [ok |-> FALSE, text |-> <<"'","r","e","s","p","o","n","s","e","'">>],
      [ok |-> FALSE, text |-> <<"c","o","n","n","e","c","t","i","o","n"," ","r","e","f","u","s","e","d">>] }

\* mutant of generate_answer: a failed model call still cites the evidence
generate_answer_citing_on_failure(vr, outcome) ==
    IF outcome.ok
    THEN [answer |-> Strip(outcome.text), citations |-> CitationsOf(vr)]
    ELSE [answer |-> ErrorPrefix \o outcome.text, citations |-> CitationsOf(vr)]

\* the pair _generate_answer returns once the model was called
generate_answer(vr, outcome) ==
    IF outcome.ok
    THEN [answer |-> Strip(outcome.text), citations |-> CitationsOf(vr)]
    ELSE [answer |-> ErrorPrefix \o outcome.text, citations |-> <<>>]

----------------------------------------------------------------------------
(* Inputs                                                                  *)

MaxResults == 5

Questions ==
    { <<"W","h","a","t"," ","a","r","e"," ","M","e","t","a","'","s"," ","m","a","i","n"," ","r","i","s","k","s","?">>,
      <<"T","e","l","l"," ","m","e"," ","a","b","o","u","t"," ","M","E","T","A",","," ","A","p","p","l","e"," ","a","n","d"," ","T","e","c","h","n","o","l","o","g","y">>,
      <<"I","s"," ","i","t"," ","o","k","?">>,
      <<"a","p","p","l","e"," ","m","e","t","a"," ","t","e","s","l","a"," ","b","a","n","k","s"," ","c","a","r","s"," ","t","e","c","h","n","o","l","o","g","y"," ","e","n","e","r","g","y">> }

MetaRisk == Meta(<<"M","E","T","A">>, <<"R","i","s","k"," ","F","a","c","t","o","r","s">>, <<"h","t","t","p","s",":","/","/","s","e","c",".","e","x","a","m","p","l","e","/","m","e","t","a","-","1","0","k">>)

\* the rankings a search can see, best (smallest distance) first
Indexes ==
    { <<>>,
      << Hit(<<"R","e","g","u","l","a","t","i","o","n"," ","i","s"," ","a"," ","r","i","s","k",".">>, MetaRisk, TRUE, 1000),
         Hit(<<"C","o","m","p","e","t","i","t","i","o","n"," ","i","s"," ","a"," ","r","i","s","k",".">>, MetaRisk, TRUE, 4000) >>,
      << Hit(<<"E","x","a","c","t"," ","m","a","t","c","h",".">>, Meta(<<"A","A","P","L">>, ABSENT, ABSENT), TRUE, 0),
         Hit(NONE, EmptyMeta, TRUE, 2534),
         Hit(<<"N","o"," ","d","i","s","t","a","n","c","e",".">>, Meta(ABSENT, <<"B","u","s","i","n","e","s","s">>, NONE), FALSE, 0) >>,
      << Hit(<<"S","t","o","r","e","d"," ","w","i","t","h","o","u","t"," ","m","e","t","a","d","a","t","a",".">>, NoneMeta, TRUE, 3000) >>,
      << Hit(Doc(5000), Meta(<<"A","A","P","L">>, <<"B","u","s","i","n","e","s","s">>, <<>>), TRUE, 500),
         Hit(Doc(1800), Meta(<<"T","S","L","A">>, ABSENT, ABSENT), TRUE, 12346) >>,
      << Hit(Doc(2100), MetaRisk, TRUE, 1500),
         Hit(Doc(1900), Meta(<<"A","A","P","L">>, <<"B","u","s","i","n","e","s","s">>, ABSENT), TRUE, 2500),
         Hit(Doc(1700), Meta(<<"N","V","D","A">>, <<"R","i","s","k"," ","F","a","c","t","o","r","s">>, ABSENT), TRUE, 3500) >>,
      << Hit(Doc(1600), MetaRisk, TRUE, 1000),
         Hit(Doc(1600), Meta(<<"A","A","P","L">>, <<"R","i","s","k"," ","F","a","c","t","o","r","s">>, ABSENT), TRUE, 2000),
         Hit(Doc(1600), Meta(<<"N","V","D","A">>, <<"R","i","s","k"," ","F","a","c","t","o","r","s">>, ABSENT), TRUE, 3000),
         Hit(Doc(1600), Meta(<<"T","S","L","A">>, <<"R","i","s","k"," ","F","a","c","t","o","r","s">>, ABSENT), TRUE, 4000),
         Hit(Doc(1600), Meta(<<"M","S","F","T">>, <<"R","i","s","k"," ","F","a","c","t","o","r","s">>, ABSENT), TRUE, 5000) >> }

MetaNode  == Company(<<"M","e","t","a"," ","P","l","a","t","f","o","r","m","s">>, <<"M","E","T","A">>, <<"T","e","c","h","n","o","l","o","g","y">>, <<"I","n","t","e","r","n","e","t"," ","C","o","n","t","e","n","t">>)
AppleNode ==
    Node(CompanyLabel, <<"A","p","p","l","e"," ","I","n","c",".">>, <<"A","A","P","L">>, <<"T","e","c","h","n","o","l","o","g","y">>, <<"C","o","n","s","u","m","e","r"," ","E","l","e","c","t","r","o","n","i","c","s">>,
         <<"D","e","s","i","g","n","s"," ","p","h","o","n","e","s",".">>, 34001200, 0, ABSENT)
TeslaNode == Company(<<"T","e","s","l","a">>, <<"T","S","L","A">>, <<"C","o","n","s","u","m","e","r"," ","C","y","c","l","i","c","a","l">>, <<"A","u","t","o"," ","M","a","n","u","f","a","c","t","u","r","e","r","s">>)
NvidiaNode == Company(<<"N","V","I","D","I","A">>, <<"N","V","D","A">>, <<"T","e","c","h","n","o","l","o","g","y">>, <<"S","e","m","i","c","o","n","d","u","c","t","o","r","s">>)
\* a :Company node merged by name only (no ticker)
AppleByName ==
    Node(CompanyLabel, <<"A","p","p","l","e">>, ABSENT, ABSENT, ABSENT, ABSENT, 0, 0, <<"r","e","p","o","r","t",".","p","d","f">>)
TechSector == Node(<<"S","e","c","t","o","r">>, <<"T","e","c","h","n","o","l","o","g","y">>, ABSENT, ABSENT, ABSENT, ABSENT, 0, 0, ABSENT)
NetIndustry ==
    Node(<<"I","n","d","u","s","t","r","y">>, <<"I","n","t","e","r","n","e","t"," ","C","o","n","t","e","n","t">>, ABSENT, ABSENT, ABSENT, ABSENT, 0, 0, ABSENT)

\* companies stored with a long description
Described(name, ticker, industry) ==
    Node(CompanyLabel, name, ticker, <<"T","e","c","h","n","o","l","o","g","y">>, industry, Doc(700), 0, 0, ABSENT)

Graphs ==
    { [nodes |-> <<>>, edges |-> <<>>],
      [nodes |-> <<MetaNode, AppleNode, TechSector, NetIndustry>>,
       edges |-> <<Edge(1, <<"O","P","E","R","A","T","E","S","_","I","N">>, 3), Edge(2, <<"O","P","E","R","A","T","E","S","_","I","N">>, 3),
                   Edge(1, <<"B","E","L","O","N","G","S","_","T","O">>, 4)>>],
      [nodes |-> <<AppleByName, AppleNode, TechSector>>,
       edges |-> <<Edge(2, <<"O","P","E","R","A","T","E","S","_","I","N">>, 3)>>],
      [nodes |-> <<TeslaNode, AppleNode, MetaNode, NvidiaNode, TechSector>>,
       edges |-> <<Edge(4, <<"O","P","E","R","A","T","E","S","_","I","N">>, 5), Edge(3, <<"O","P","E","R","A","T","E","S","_","I","N">>, 5),
                   Edge(2, <<"O","P","E","R","A","T","E","S","_","I","N">>, 5)>>],
      [nodes |-> <<Described(<<"M","e","t","a"," ","P","l","a","t","f","o","r","m","s">>, <<"M","E","T","A">>, <<"I","n","t","e","r","n","e","t"," ","C","o","n","t","e","n","t">>),
                   Described(<<"A","p","p","l","e"," ","I","n","c",".">>, <<"A","A","P","L">>, <<"C","o","n","s","u","m","e","r"," ","E","l","e","c","t","r","o","n","i","c","s">>),
                   Described(<<"N","V","I","D","I","A">>, <<"N","V","D","A">>, <<"S","e","m","i","c","o","n","d","u","c","t","o","r","s">>),
                   TechSector, AppleByName,
                   Described(<<"M","i","c","r","o","s","o","f","t">>, <<"M","S","F","T">>, <<"S","o","f","t","w","a","r","e">>)>>,
       edges |-> <<Edge(1, <<"O","P","E","R","A","T","E","S","_","I","N">>, 4), Edge(2, <<"O","P","E","R","A","T","E","S","_","I","N">>, 4),
                   Edge(1, <<"C","O","M","P","E","T","E","S","_","W","I","T","H">>, 2), Edge(1, <<"C","O","M","P","E","T","E","S","_","W","I","T","H">>, 3),
                   Edge(1, <<"C","O","M","P","E","T","E","S","_","W","I","T","H">>, 6), Edge(1, <<"P","A","R","T","N","E","R","S","_","W","I","T","H">>, 2),
                   Edge(1, <<"P","A","R","T","N","E","R","S","_","W","I","T","H">>, 3), Edge(1, <<"P","A","R","T","N","E","R","S","_","W","I","T","H">>, 6),
                   Edge(1, <<"I","N","V","E","S","T","S","_","I","N">>, 2), Edge(1, <<"I","N","V","E","S","T","S","_","I","N">>, 3),
                   Edge(1, <<"I","N","V","E","S","T","S","_","I","N">>, 6), Edge(1, <<"O","W","N","S">>, 5)>>] }

----------------------------------------------------------------------------
(* GraphRAGAgent.answer                                                    *)

NoResult ==
    [question |-> <<>>, answer |-> <<>>, citations |-> <<>>, graph_paths |-> <<>>,
     sources |-> [vector_results |-> 0, graph_entities |-> 0]]

NoGraph == [nodes |-> <<>>, edges |-> <<>>]
NoStats == [error |-> FALSE, entities_added |-> 0, relations_added |-> 0]

\* the trace extended by one external call that returned / that raised
Called(op, arg) == Append(trace, [op |-> op, arg |-> arg, ok |-> TRUE])
CalledRaising(op, arg) == Append(trace, [op |-> op, arg |-> arg, ok |-> FALSE])
Raised(op) == faults \cup {op}

\* the locals of a call before its first statement
FreshCall ==
    /\ vector_context = <<>> /\ graph_context = <<>> /\ graph_paths = <<>>
    /\ keywords = <<>> /\ ki = 0 /\ entities = <<>> /\ paths = <<>>
    /\ full_context = <<>> /\ answer = <<>> /\ citations = <<>>
    /\ result = NoResult /\ trace = <<>> /\ faults = {}
    /\ batch = <<>> /\ cursor = <<0, 0, 0>> /\ added = <<0, 0>> /\ stats = NoStats
    /\ calls = 0
    /\ writers = <<>> /\ origin = NoGraph
    /\ response = <<>>

\* __init__: self.driver is a driver object, or None when the connection failed
Init ==
    /\ pc = "idle"
    /\ question = <<>> /\ n_results = 0 /\ include_graph = FALSE
    /\ driver \in BOOLEAN
    /\ index \in Indexes
    /\ \E g \in Graphs : nodes = g.nodes /\ edges = g.edges
    /\ FreshCall

Store == <<driver, index, nodes, edges>>
Concurrent == <<writers, origin>>
Ingest == <<batch, cursor, added, stats, calls, Concurrent, response>>
GraphLocals == <<keywords, ki, entities, paths>>

\* answer(question, n_vector_results, include_graph) is entered
Call(q, n, g) ==
    /\ pc = "idle"
    /\ question' = q /\ n_results' = n /\ include_graph' = g
    /\ pc' = "vector"
    /\ UNCHANGED <<Store, Ingest, faults, GraphLocals, vector_context, graph_context,
                   graph_paths, full_context, answer, citations, result, trace>>

\* _vector_search: the store answers
VectorSearch ==
    /\ pc = "vector"
    /\ trace' = Called("search", question)
    /\ vector_context' = vector_search(search(index, n_results))
    /\ pc' = "graph"
    /\ UNCHANGED <<Store, Ingest, faults, GraphLocals, question, n_results, include_graph,
                   graph_context, graph_paths, full_context, answer, citations, result>>

\* mutant of VectorSearchFails: the store's exception leaves _vector_search
VectorSearchFailsRaises ==
    /\ pc = "vector"
    /\ faults' = Raised("search")
    /\ trace' = CalledRaising("search", question)
    /\ pc' = "raised"
    /\ UNCHANGED <<Store, Ingest, GraphLocals, question, n_results, include_graph,
                   vector_context, graph_context, graph_paths, full_context, answer,
                   citations, result>>

\* _vector_search: the store raises
VectorSearchFails ==
    /\ pc = "vector"
    /\ faults' = Raised("search")
    /\ trace' = CalledRaising("search", question)
    /\ vector_context' = <<>>
    /\ pc' = "graph"
    /\ UNCHANGED <<Store, Ingest, GraphLocals, question, n_results, include_graph,
                   graph_context, graph_paths, full_context, answer, citations, result>>

\* mutant of GraphWanted: the recorded connection state is not consulted
GraphWantedWithoutDriver == include_graph

\* `if include_graph and self.driver`
GraphWanted == include_graph /\ driver

\* mutant of SkipGraph: the graph step may be skipped on any call
SkipGraphAlways ==
    /\ pc = "graph"
    /\ pc' = "build"
    /\ UNCHANGED <<Store, Ingest, faults, GraphLocals, question, n_results, include_graph,
                   vector_context, graph_context, graph_paths, full_context, answer,
                   citations, result, trace>>

\* answer: the graph step is skipped
SkipGraph ==
    /\ pc = "graph"
    /\ ~GraphWanted
    /\ pc' = "build"
    /\ UNCHANGED <<Store, Ingest, faults, GraphLocals, question, n_results, include_graph,
                   vector_context, graph_context, graph_paths, full_context, answer,
                   citations, result, trace>>

\* mutant of GraphSearchFailed: what was matched before the failure is returned
GraphSearchFailedKeeps ==
    /\ graph_context' = entities
    /\ graph_paths' = paths
    /\ pc' = "build"

\* _graph_search: the except branch, return [], []
GraphSearchFailed ==
    /\ graph_context' = <<>>
    /\ graph_paths' = <<>>
    /\ pc' = "build"

\* _graph_search: the session opens and the keywords are extracted
OpenSession ==
    /\ pc = "graph"
    /\ GraphWanted
    /\ trace' = Called("session", <<>>)
    /\ keywords' = extract_keywords(question)
    /\ ki' = 1
    /\ pc' = "probe"
    /\ UNCHANGED <<Store, Ingest, faults, entities, paths, question, n_results, include_graph,
                   vector_context, graph_context, graph_paths, full_context, answer,
                   citations, result>>

\* _graph_search: opening the session raises
OpenSessionFails ==
    /\ pc = "graph"
    /\ GraphWanted
    /\ faults' = Raised("session")
    /\ trace' = CalledRaising("session", <<>>)
    /\ GraphSearchFailed
    /\ UNCHANGED <<Store, Ingest, GraphLocals, question, n_results, include_graph,
                   vector_context, full_context, answer, citations, result>>

MoreKeywords == ki <= Len(ProbedKeywords(keywords))

\* mutant of Probe: the probe query merges a node for the keyword
ProbeMerging ==
    /\ pc = "probe"
    /\ MoreKeywords
    /\ trace' = Called("probe", keywords[ki])
    /\ nodes' = Append(nodes, Company(keywords[ki], ABSENT, ABSENT, ABSENT))
    /\ entities' = entities \o ProbeEntities(nodes', keywords[ki])
    /\ ki' = ki + 1
    /\ UNCHANGED <<driver, index, edges, Ingest, faults, pc, keywords, paths, question,
                   n_results, include_graph, vector_context, graph_context,
                   graph_paths, full_context, answer, citations, result>>

\* _graph_search: one turn of the keyword loop
Probe ==
    /\ pc = "probe"
    /\ MoreKeywords
    /\ trace' = Called("probe", keywords[ki])
    /\ entities' = entities \o ProbeEntities(nodes, keywords[ki])
    /\ ki' = ki + 1
    /\ UNCHANGED <<Store, Ingest, faults, pc, keywords, paths, question, n_results,
                   include_graph, vector_context, graph_context, graph_paths,
                   full_context, answer, citations, result>>

\* mutant of ProbeFails: the failed probe is left to be issued again
ProbeFailsRetried ==
    /\ pc = "probe"
    /\ MoreKeywords
    /\ faults' = Raised("probe")
    /\ trace' = CalledRaising("probe", keywords[ki])
    /\ UNCHANGED <<Store, Ingest, GraphLocals, pc, question, n_results, include_graph,
                   vector_context, graph_context, graph_paths, full_context, answer,
                   citations, result>>

\* _graph_search: a keyword probe raises
ProbeFails ==
    /\ pc = "probe"
    /\ MoreKeywords
    /\ faults' = Raised("probe")
    /\ trace' = CalledRaising("probe", keywords[ki])
    /\ GraphSearchFailed
    /\ UNCHANGED <<Store, Ingest, GraphLocals, question, n_results, include_graph,
                   vector_context, full_context, answer, citations, result>>

\* `if entities:` and `if ticker:`
Expands == entities # <<>> /\ Truthy(AnchorTicker(entities))

\* _graph_search: the relationship fetch, then return entities, paths
Fetch ==
    /\ pc = "probe"
    /\ ~MoreKeywords
    /\ Expands
    /\ trace' = Called("fetch", AnchorTicker(entities))
    /\ paths' = FetchPaths(nodes, edges, AnchorTicker(entities))
    /\ graph_context' = entities
    /\ graph_paths' = paths'
    /\ pc' = "build"
    /\ UNCHANGED <<Store, Ingest, faults, keywords, ki, entities, question, n_results,
                   include_graph, vector_context, full_context, answer, citations,
                   result>>

\* _graph_search: the relationship fetch raises
FetchFails ==
    /\ pc = "probe"
    /\ ~MoreKeywords
    /\ Expands
    /\ faults' = Raised("fetch")
    /\ trace' = CalledRaising("fetch", AnchorTicker(entities))
    /\ GraphSearchFailed
    /\ UNCHANGED <<Store, Ingest, GraphLocals, question, n_results, include_graph,
                   vector_context, full_context, answer, citations, result>>

\* _graph_search: nothing to expand, return entities, paths
NoFetch ==
    /\ pc = "probe"
    /\ ~MoreKeywords
    /\ ~Expands
    /\ graph_context' = entities
    /\ graph_paths' = paths
    /\ pc' = "build"
    /\ UNCHANGED <<Store, Ingest, faults, GraphLocals, question, n_results, include_graph,
                   vector_context, full_context, answer, citations, result, trace>>

\* _build_context returns
BuildContext ==
    /\ pc = "build"
    /\ ~build_context_raises(vector_context)
    /\ full_context' = build_context(vector_context, graph_context)
    /\ pc' = "generate"
    /\ UNCHANGED <<Store, Ingest, faults, GraphLocals, question, n_results, include_graph,
                   vector_context, graph_context, graph_paths, answer, citations,
                   result, trace>>

\* _build_context raises, and so does answer
BuildContextRaises ==
    /\ pc = "build"
    /\ build_context_raises(vector_context)
    /\ pc' = "raised"
    /\ UNCHANGED <<Store, Ingest, faults, GraphLocals, question, n_results, include_graph,
                   vector_context, graph_context, graph_paths, full_context, answer,
                   citations, result, trace>>

\* mutant of AnswerResult: the entity count is taken after the entity cap
AnswerResultCapped(a, c) ==
    [question    |-> question,
     answer      |-> a,
     citations   |-> c,
     graph_paths |-> graph_paths,
     sources     |-> [vector_results |-> Len(vector_context),
                      graph_entities |-> Min(Len(graph_context), MaxEntities)]]

\* the dict answer returns
AnswerResult(a, c) ==
    [question    |-> question,
     answer      |-> a,
     citations   |-> c,
     graph_paths |-> graph_paths,
     sources     |-> [vector_results |-> Len(vector_context),
                      graph_entities |-> Len(graph_context)]]

\* _generate_answer: the pre-check returns the refusal; answer returns
Refuse ==
    /\ pc = "generate"
    /\ NoContext(full_context)
    /\ answer' = Refusal
    /\ citations' = <<>>
    /\ result' = AnswerResult(answer', citations')
    /\ pc' = "done"
    /\ UNCHANGED <<Store, Ingest, faults, GraphLocals, question, n_results, include_graph,
                   vector_context, graph_context, graph_paths, full_context, trace>>

\* _generate_answer: the model is called; answer returns
Generate(outcome) ==
    /\ pc = "generate"
    /\ ~NoContext(full_context)
    /\ trace' = IF outcome.ok
                THEN Called("generate", Prompt(question, full_context))
                ELSE CalledRaising("generate", Prompt(question, full_context))
    /\ faults' = IF outcome.ok THEN faults ELSE Raised("generate")
    /\ LET r == generate_answer(vector_context, outcome)
       IN  /\ answer' = r.answer
           /\ citations' = r.citations
           /\ result' = AnswerResult(r.answer, r.citations)
    /\ pc' = "done"
    /\ UNCHANGED <<Store, Ingest, GraphLocals, question, n_results, include_graph,
                   vector_context, graph_context, graph_paths, full_context>>

\* the caller drops the result (or the exception); the next call starts fresh
Return ==
    /\ pc \in {"done", "raised"}
    /\ pc' = "idle"
    /\ question' = <<>> /\ n_results' = 0 /\ include_graph' = FALSE
    /\ vector_context' = <<>> /\ graph_context' = <<>> /\ graph_paths' = <<>>
    /\ keywords' = <<>> /\ ki' = 0 /\ entities' = <<>> /\ paths' = <<>>
    /\ full_context' = <<>> /\ answer' = <<>> /\ citations' = <<>>
    /\ result' = NoResult /\ trace' = <<>> /\ faults' = {}
    /\ UNCHANGED <<Store, Ingest>>

NextAnswer ==
    \/ \E q \in Questions, n \in 1..MaxResults, g \in BOOLEAN : Call(q, n, g)
    \/ VectorSearch
    \/ VectorSearchFails
    \/ SkipGraph
    \/ OpenSession
    \/ OpenSessionFails
    \/ Probe
    \/ ProbeFails
    \/ Fetch
    \/ FetchFails
    \/ NoFetch
    \/ BuildContext
    \/ BuildContextRaises
    \/ Refuse
    \/ \E o \in LLMOutcomes : Generate(o)
    \/ Return

Next == NextAnswer

Spec == Init /\ [][Next]_vars

----------------------------------------------------------------------------
(* GraphRAGAgent.add_entities_to_graph                                     *)

\* str.upper()
UpperChar(c) ==
    IF \E i \in 1..Len(LowerChars) : LowerChars[i] = c
    THEN UpperChars[CHOOSE i \in 1..Len(LowerChars) : LowerChars[i] = c]
    ELSE c
Upper(s) == [i \in 1..Len(s) |-> UpperChar(s[i])]

\* str.replace(" ", "_")
SpacesToUnderscores(s) == [i \in 1..Len(s) |-> IF s[i] = " " THEN "_" ELSE s[i]]

\* relation_type.upper().replace(" ", "_")
SanitizeRelation(r) == SpacesToUnderscores(Upper(r))

IdentStart == {UpperChars[i] : i \in 1..Len(UpperChars)}
                 \cup {LowerChars[i] : i \in 1..Len(LowerChars)} \cup {"_"}
IdentPart == IdentStart \cup {Digits[i] : i \in 1..Len(Digits)}

\* the text can stand unquoted as a label or relationship type in a query;
\* any other text makes the interpolated query a syntax error
ValidLabel(l) ==
    /\ l # <<>>
    /\ l[1] \in IdentStart
    /\ \A i \in 1..Len(l) : l[i] \in IdentPart

\* positions of the nodes with this label and name
Labelled(ns, label, name) ==
    {i \in 1..Len(ns) : ns[i].label = label /\ ns[i].name = name}

\* mutant of MergeNode: a node is created whether or not one exists
CreateNode(ns, label, name, source) ==
    Append(ns, Node(label, name, ABSENT, ABSENT, ABSENT, ABSENT, 0, 0, source))

\* MERGE (e:<label> {name: $name}) SET e.source = $source, e.updated_at = ...
MergeNode(ns, label, name, source) ==
    IF Labelled(ns, label, name) # {}
    THEN [i \in 1..Len(ns) |->
            IF i \in Labelled(ns, label, name)
            THEN [ns[i] EXCEPT !.source = source] ELSE ns[i]]
    ELSE Append(ns, Node(label, name, ABSENT, ABSENT, ABSENT, ABSENT, 0, 0, source))

\* the <<s, t>> pairs of MATCH (s {name: $source}) MATCH (t {name: $target})
\* that have no <rel> relationship yet, from position <<i, j>> on, in order
RECURSIVE MissingEdges(_, _, _, _, _, _, _)
MissingEdges(ns, es, s, rel, t, i, j) ==
    IF i > Len(ns) THEN <<>>
    ELSE IF j > Len(ns) THEN MissingEdges(ns, es, s, rel, t, i + 1, 1)
    ELSE (IF /\ ns[i].name = s
             /\ ns[j].name = t
             /\ \A k \in 1..Len(es) : es[k] # Edge(i, rel, j)
          THEN <<Edge(i, rel, j)>> ELSE <<>>)
         \o MissingEdges(ns, es, s, rel, t, i, j + 1)

\* MATCH (s {name: $source}) MATCH (t {name: $target}) MERGE (s)-[r:<rel>]->(t)
MergeEdge(ns, es, s, rel, t) == es \o MissingEdges(ns, es, s, rel, t, 1, 1)

\* entity.get("type", "Entity"), entity.get("name", ""), result.get("source", "unknown")
EntityType(e) == Get(e, "type", <<"E","n","t","i","t","y">>)
EntityName(e) == Get(e, "name", <<>>)
SourceOf(x) == Get(x, "source", <<"u","n","k","n","o","w","n">>)

\* rel.get("source", ""), rel.get("target", ""), rel.get("relation", "RELATED_TO")
RelSource(r) == Get(r, "source", <<>>)
RelTarget(r) == Get(r, "target", <<>>)
RelType(r) == Get(r, "relation", <<"R","E","L","A","T","E","D","_","T","O">>)

----------------------------------------------------------------------------
(* Extraction results handed to add_entities_to_graph                      *)

Entity(type, name) == [type |-> type, name |-> name]
Relation(s, rel, t) == [source |-> s, relation |-> rel, target |-> t]
Extraction(source, ents, rels) ==
    [source |-> source, entities |-> ents, relations |-> rels]

Acme     == Entity(<<"O","R","G","A","N","I","Z","A","T","I","O","N">>, <<"A","c","m","e">>)
AcmeCo   == Entity(<<"C","o","m","p","a","n","y">>, <<"A","c","m","e">>)
Beta     == Entity(<<"O","R","G","A","N","I","Z","A","T","I","O","N">>, <<"B","e","t","a">>)
Unnamed  == Entity(<<"P","E","R","S","O","N">>, <<>>)
Untyped  == Entity(ABSENT, <<"G","a","m","m","a">>)
BadLabel == Entity(<<"F","I","N","A","N","C","I","A","L"," ","M","E","T","R","I","C">>, <<"R","e","v","e","n","u","e">>)

Partners == Relation(<<"A","c","m","e">>, <<"p","a","r","t","n","e","r","s"," ","w","i","t","h">>, <<"B","e","t","a">>)
OwnsGhost == Relation(<<"A","c","m","e">>, <<"O","W","N","S">>, <<"G","h","o","s","t">>)
NoSource == Relation(<<>>, <<"O","W","N","S">>, <<"B","e","t","a">>)
NoType == Relation(<<"B","e","t","a">>, ABSENT, <<"A","c","m","e">>)
NullType == Relation(<<"A","c","m","e">>, NONE, <<"B","e","t","a">>)
BadType == Relation(<<"A","c","m","e">>, <<"d","e","p","e","n","d","s","-","o","n">>, <<"B","e","t","a">>)

Batches ==
    { <<>>,
      << Extraction(<<"d","o","c","1">>, <<Acme, Acme>>, <<>>) >>,
      << Extraction(<<"d","o","c","1">>, <<Acme>>, <<>>) >>,
      << Extraction(<<"d","o","c","2">>, <<Acme, Beta>>, <<Partners>>) >>,
      << Extraction(<<"d","o","c","2">>, <<Unnamed, BadLabel, Beta>>, <<NoSource, BadType, OwnsGhost>>) >>,
      << Extraction(ABSENT, <<AcmeCo, Untyped>>, <<NoType, Partners>>) >>,
      << Extraction(<<"d","o","c","3">>, <<>>, <<Partners>>),
         Extraction(<<"d","o","c","3">>, <<Beta, Acme>>, <<>>) >>,
      << Extraction(<<"d","o","c","4">>, <<Beta>>, <<NullType, Partners>>) >> }

MaxCalls == 2

\* the first position at or after <<x, phase, i>> that holds an item
\* (phase 1: entities, phase 2: relations); <<Len(b) + 1, 1, 1>> at the end
RECURSIVE Position(_, _)
Position(b, c) ==
    IF c[1] > Len(b) THEN <<Len(b) + 1, 1, 1>>
    ELSE IF c[2] = 1
         THEN IF c[3] <= Len(b[c[1]].entities) THEN c
              ELSE Position(b, <<c[1], 2, 1>>)
         ELSE IF c[3] <= Len(b[c[1]].relations) THEN c
              ELSE Position(b, <<c[1] + 1, 1, 1>>)

After(b, c) == Position(b, <<c[1], c[2], c[3] + 1>>)

AtEntity == pc = "ingest" /\ cursor[1] <= Len(batch) /\ cursor[2] = 1
AtRelation == pc = "ingest" /\ cursor[1] <= Len(batch) /\ cursor[2] = 2
ThisEntity == batch[cursor[1]].entities[cursor[3]]
ThisRelation == batch[cursor[1]].relations[cursor[3]]

AnswerLocals ==
    <<question, n_results, include_graph, vector_context, graph_context,
      graph_paths, keywords, ki, entities, paths, full_context, answer,
      citations, result, response>>

InitIngest ==
    /\ pc = "idle"
    /\ question = <<>> /\ n_results = 0 /\ include_graph = FALSE
    /\ driver \in BOOLEAN
    /\ index = <<>>
    /\ \/ nodes = <<>> /\ edges = <<>>
       \/ nodes = <<AppleByName, AppleNode, TechSector>>
          /\ edges = << Edge(2, <<"O","P","E","R","A","T","E","S","_","I","N">>, 3) >>
    /\ FreshCall

\* mutant of IngestWithoutDriver: the missing connection is not tested
IngestWithoutDriverOpens(b) ==
    /\ pc = "idle"
    /\ calls < MaxCalls
    /\ ~driver
    /\ batch' = b
    /\ calls' = calls + 1
    /\ trace' = Called("session", <<>>)
    /\ added' = <<0, 0>>
    /\ cursor' = Position(b, <<1, 1, 1>>)
    /\ pc' = "ingest"
    /\ UNCHANGED <<Store, AnswerLocals, Concurrent, faults, stats>>

\* `if not self.driver: return {"error": ...}`
IngestWithoutDriver(b) ==
    /\ pc = "idle"
    /\ calls < MaxCalls
    /\ ~driver
    /\ batch' = b
    /\ calls' = calls + 1
    /\ stats' = [error |-> TRUE, entities_added |-> 0, relations_added |-> 0]
    /\ pc' = "ingested"
    /\ UNCHANGED <<Store, AnswerLocals, Concurrent, trace, faults, cursor, added>>

\* the session opens and the loops start
IngestCall(b) ==
    /\ pc = "idle"
    /\ calls < MaxCalls
    /\ driver
    /\ batch' = b
    /\ calls' = calls + 1
    /\ trace' = Called("session", <<>>)
    /\ added' = <<0, 0>>
    /\ cursor' = Position(b, <<1, 1, 1>>)
    /\ pc' = "ingest"
    /\ UNCHANGED <<Store, AnswerLocals, Concurrent, faults, stats>>

\* opening the session raises, and so does add_entities_to_graph
IngestSessionFails(b) ==
    /\ pc = "idle"
    /\ calls < MaxCalls
    /\ driver
    /\ batch' = b
    /\ calls' = calls + 1
    /\ trace' = CalledRaising("session", <<>>)
    /\ faults' = Raised("session")
    /\ pc' = "raised"
    /\ UNCHANGED <<Store, AnswerLocals, Concurrent, cursor, added, stats>>

\* `if not entity_name: continue`
SkipEntity ==
    /\ AtEntity
    /\ ~Truthy(EntityName(ThisEntity))
    /\ cursor' = After(batch, cursor)
    /\ UNCHANGED <<Store, AnswerLocals, Concurrent, trace, faults, pc, batch, added, stats, calls>>

\* the node upsert succeeds
MergeEntity ==
    /\ AtEntity
    /\ Truthy(EntityName(ThisEntity))
    /\ ValidLabel(EntityType(ThisEntity))
    /\ trace' = Called("merge_node", <<EntityType(ThisEntity), EntityName(ThisEntity)>>)
    /\ nodes' = MergeNode(nodes, EntityType(ThisEntity), EntityName(ThisEntity),
                          SourceOf(batch[cursor[1]]))
    /\ added' = <<added[1] + 1, added[2]>>
    /\ cursor' = After(batch, cursor)
    /\ UNCHANGED <<driver, index, edges, AnswerLocals, Concurrent, faults, pc, batch, stats, calls>>

\* the node upsert raises (always for a label that is no identifier):
\* `except Exception: pass`
MergeEntityFails ==
    /\ AtEntity
    /\ Truthy(EntityName(ThisEntity))
    /\ trace' = CalledRaising("merge_node", <<EntityType(ThisEntity), EntityName(ThisEntity)>>)
    /\ faults' = Raised("merge_node")
    /\ cursor' = After(batch, cursor)
    /\ UNCHANGED <<Store, AnswerLocals, Concurrent, pc, batch, added, stats, calls>>

\* `if not source_name or not target_name: continue`
SkipRelation ==
    /\ AtRelation
    /\ ~Truthy(RelSource(ThisRelation)) \/ ~Truthy(RelTarget(ThisRelation))
    /\ cursor' = After(batch, cursor)
    /\ UNCHANGED <<Store, AnswerLocals, Concurrent, trace, faults, pc, batch, added, stats, calls>>

RelationNamed ==
    AtRelation /\ Truthy(RelSource(ThisRelation)) /\ Truthy(RelTarget(ThisRelation))

\* relation_type.upper() on None raises outside the try, and so does
\* add_entities_to_graph
SanitizeRaises ==
    /\ RelationNamed
    /\ RelType(ThisRelation) = NONE
    /\ pc' = "raised"
    /\ UNCHANGED <<Store, AnswerLocals, Concurrent, trace, faults, batch, cursor, added, stats, calls>>

\* the relationship upsert succeeds
MergeRelation ==
    /\ RelationNamed
    /\ RelType(ThisRelation) # NONE
    /\ ValidLabel(SanitizeRelation(RelType(ThisRelation)))
    /\ trace' = Called("merge_edge",
                       <<RelSource(ThisRelation), SanitizeRelation(RelType(ThisRelation)),
                         RelTarget(ThisRelation)>>)
    /\ edges' = MergeEdge(nodes, edges, RelSource(ThisRelation),
                          SanitizeRelation(RelType(ThisRelation)), RelTarget(ThisRelation))
    /\ added' = <<added[1], added[2] + 1>>
    /\ cursor' = After(batch, cursor)
    /\ UNCHANGED <<driver, index, nodes, AnswerLocals, Concurrent, faults, pc, batch, stats, calls>>

\* the relationship upsert raises (always for a type that is no identifier):
\* `except Exception: pass`
MergeRelationFails ==
    /\ RelationNamed
    /\ RelType(ThisRelation) # NONE
    /\ trace' = CalledRaising("merge_edge",
                       <<RelSource(ThisRelation), SanitizeRelation(RelType(ThisRelation)),
                         RelTarget(ThisRelation)>>)
    /\ faults' = Raised("merge_edge")
    /\ cursor' = After(batch, cursor)
    /\ UNCHANGED <<Store, AnswerLocals, Concurrent, pc, batch, added, stats, calls>>

\* the loops are over: return the counts
IngestReturn ==
    /\ pc = "ingest"
    /\ cursor[1] > Len(batch)
    /\ stats' = [error |-> FALSE, entities_added |-> added[1],
                 relations_added |-> added[2]]
    /\ pc' = "ingested"
    /\ UNCHANGED <<Store, AnswerLocals, Concurrent, trace, faults, batch, cursor, added, calls>>

\* the caller drops the counts (or the exception); the next call starts fresh
IngestDone ==
    /\ pc \in {"ingested", "raised"}
    /\ pc' = "idle"
    /\ batch' = <<>> /\ cursor' = <<0, 0, 0>> /\ added' = <<0, 0>>
    /\ stats' = NoStats /\ trace' = <<>> /\ faults' = {}
    /\ UNCHANGED <<Store, AnswerLocals, Concurrent, calls>>

NextIngest ==
    \/ \E b \in Batches : IngestWithoutDriver(b)
    \/ \E b \in Batches : IngestCall(b)
    \/ \E b \in Batches : IngestSessionFails(b)
    \/ SkipEntity
    \/ MergeEntity
    \/ MergeEntityFails
    \/ SkipRelation
    \/ SanitizeRaises
    \/ MergeRelation
    \/ MergeRelationFails
    \/ IngestReturn
    \/ IngestDone

SpecIngest == InitIngest /\ [][NextIngest]_vars


----------------------------------------------------------------------------
(* Two add_entities_to_graph calls running against one graph store         *)

\* the item at position c of batch b reaches no query
ItemSkipped(b, c) ==
    IF c[2] = 1
    THEN ~Truthy(EntityName(b[c[1]].entities[c[3]]))
    ELSE \/ ~Truthy(RelSource(b[c[1]].relations[c[3]]))
         \/ ~Truthy(RelTarget(b[c[1]].relations[c[3]]))

\* relation_type.upper() raises for the relation at position c
ItemRaises(b, c) ==
    /\ c[2] = 2
    /\ ~ItemSkipped(b, c)
    /\ RelType(b[c[1]].relations[c[3]]) = NONE

\* the query built for the item at position c is well formed
ItemAccepted(b, c) ==
    /\ ~ItemSkipped(b, c)
    /\ IF c[2] = 1
       THEN ValidLabel(EntityType(b[c[1]].entities[c[3]]))
       ELSE /\ RelType(b[c[1]].relations[c[3]]) # NONE
            /\ ValidLabel(SanitizeRelation(RelType(b[c[1]].relations[c[3]])))

\* the graph after the query for the item at position c of batch b
UpsertAt(g, b, c) ==
    IF ~ItemAccepted(b, c) THEN g
    ELSE IF c[2] = 1
    THEN [g EXCEPT !.nodes =
             MergeNode(g.nodes, EntityType(b[c[1]].entities[c[3]]),
                       EntityName(b[c[1]].entities[c[3]]), SourceOf(b[c[1]]))]
    ELSE [g EXCEPT !.edges =
             MergeEdge(g.nodes, g.edges, RelSource(b[c[1]].relations[c[3]]),
                       SanitizeRelation(RelType(b[c[1]].relations[c[3]])),
                       RelTarget(b[c[1]].relations[c[3]]))]

\* the graph after one whole call over batch b, from position c on, when
\* nothing else writes to the store
RECURSIVE RunFrom(_, _, _)
RunFrom(g, b, c) ==
    IF c[1] > Len(b) \/ ItemRaises(b, c) THEN g
    ELSE RunFrom(UpsertAt(g, b, c), b, After(b, c))

RunBatch(g, b) == RunFrom(g, b, Position(b, <<1, 1, 1>>))

\* one call in flight: its position, its counters and what it returned
Writer(b) ==
    [pc |-> "idle", batch |-> b, cursor |-> <<0, 0, 0>>, added |-> <<0, 0>>,
     stats |-> NoStats]

WriterIds == {1, 2}

\* two requests reach the agent, each with its own batch
InitWriters ==
    /\ pc = "idle"
    /\ question = <<>> /\ n_results = 0 /\ include_graph = FALSE
    /\ driver = TRUE
    /\ index = <<>>
    /\ \/ nodes = <<>> /\ edges = <<>>
       \/ nodes = <<AppleByName, AppleNode, TechSector>>
          /\ edges = << Edge(2, <<"O","P","E","R","A","T","E","S","_","I","N">>, 3) >>
    /\ origin = [nodes |-> nodes, edges |-> edges]
    /\ \E b1 \in Batches, b2 \in Batches : writers = <<Writer(b1), Writer(b2)>>
    /\ vector_context = <<>> /\ graph_context = <<>> /\ graph_paths = <<>>
    /\ keywords = <<>> /\ ki = 0 /\ entities = <<>> /\ paths = <<>>
    /\ full_context = <<>> /\ answer = <<>> /\ citations = <<>>
    /\ result = NoResult /\ trace = <<>> /\ faults = {}
    /\ batch = <<>> /\ cursor = <<0, 0, 0>> /\ added = <<0, 0>> /\ stats = NoStats
    /\ calls = 0
    /\ response = <<>>

\* what no concurrent call changes
WriterFrame ==
    <<pc, driver, index, AnswerLocals, trace, faults, batch, cursor, added, stats,
      calls, origin>>

WriterAt(w) == writers[w].pc = "ingest" /\ writers[w].cursor[1] <= Len(writers[w].batch)

\* call w opens its session and reaches its first item
WriterOpens(w) ==
    /\ writers[w].pc = "idle"
    /\ writers' = [writers EXCEPT ![w].pc = "ingest",
                                  ![w].cursor = Position(writers[w].batch, <<1, 1, 1>>)]
    /\ UNCHANGED <<WriterFrame, nodes, edges>>

\* `continue` for an item without a name
WriterSkips(w) ==
    /\ WriterAt(w)
    /\ ItemSkipped(writers[w].batch, writers[w].cursor)
    /\ writers' = [writers EXCEPT ![w].cursor = After(writers[w].batch, writers[w].cursor)]
    /\ UNCHANGED <<WriterFrame, nodes, edges>>

\* the query of call w is rejected by the store: `except Exception: pass`
WriterRejected(w) ==
    /\ WriterAt(w)
    /\ ~ItemSkipped(writers[w].batch, writers[w].cursor)
    /\ ~ItemRaises(writers[w].batch, writers[w].cursor)
    /\ ~ItemAccepted(writers[w].batch, writers[w].cursor)
    /\ writers' = [writers EXCEPT ![w].cursor = After(writers[w].batch, writers[w].cursor)]
    /\ UNCHANGED <<WriterFrame, nodes, edges>>

\* the query of call w runs as one transaction on the shared store
WriterUpserts(w) ==
    /\ WriterAt(w)
    /\ ItemAccepted(writers[w].batch, writers[w].cursor)
    /\ LET g == UpsertAt([nodes |-> nodes, edges |-> edges],
                         writers[w].batch, writers[w].cursor)
       IN  nodes' = g.nodes /\ edges' = g.edges
    /\ writers' = [writers EXCEPT
          ![w].cursor = After(writers[w].batch, writers[w].cursor),
          ![w].added = IF writers[w].cursor[2] = 1
                       THEN <<writers[w].added[1] + 1, writers[w].added[2]>>
                       ELSE <<writers[w].added[1], writers[w].added[2] + 1>>]
    /\ UNCHANGED WriterFrame

\* relation_type.upper() raises in call w, and so does the call
WriterRaises(w) ==
    /\ WriterAt(w)
    /\ ItemRaises(writers[w].batch, writers[w].cursor)
    /\ writers' = [writers EXCEPT ![w].pc = "raised"]
    /\ UNCHANGED <<WriterFrame, nodes, edges>>

\* call w returns its counts
WriterReturns(w) ==
    /\ writers[w].pc = "ingest"
    /\ writers[w].cursor[1] > Len(writers[w].batch)
    /\ writers' = [writers EXCEPT
          ![w].pc = "ingested",
          ![w].stats = [error |-> FALSE, entities_added |-> writers[w].added[1],
                        relations_added |-> writers[w].added[2]]]
    /\ UNCHANGED <<WriterFrame, nodes, edges>>

NextWriters ==
    \/ \E w \in WriterIds : WriterOpens(w)
    \/ \E w \in WriterIds : WriterSkips(w)
    \/ \E w \in WriterIds : WriterRejected(w)
    \/ \E w \in WriterIds : WriterUpserts(w)
    \/ \E w \in WriterIds : WriterRaises(w)
    \/ \E w \in WriterIds : WriterReturns(w)

SpecWriters == InitWriters /\ [][NextWriters]_vars


----------------------------------------------------------------------------
(* api.clean_nan and the body graphrag_qa hands to jsonify                 *)

\* a Python value: None, a str, an int, a float (finite, or nan / inf / -inf
\* under special), a list of values, a dict of key / value items in order
PyValue(kind, special, num, text, items) ==
    [kind |-> kind, special |-> special, num |-> num, text |-> text, items |-> items]

PyNone == PyValue("none", "", 0, <<>>, <<>>)
PyStr(s) == PyValue("str", "", 0, s, <<>>)
PyInt(n) == PyValue("int", "", n, <<>>, <<>>)
PyFloat(x) == PyValue("float", "", x, <<>>, <<>>)
PyNaN == PyValue("float", "nan", 0, <<>>, <<>>)
PyInf == PyValue("float", "inf", 0, <<>>, <<>>)
PyNegInf == PyValue("float", "-inf", 0, <<>>, <<>>)
PyList(items) == PyValue("list", "", 0, <<>>, items)
PyItem(key, value) == [key |-> key, value |-> value]
PyDict(items) == PyValue("dict", "", 0, <<>>, items)

\* math.isnan, math.isinf
isnan(x) == x.special = "nan"
isinf(x) == x.special \in {"inf", "-inf"}

\* mutant of clean_nan: lists are returned as they are
RECURSIVE clean_nan_dicts_only(_)
clean_nan_dicts_only(data) ==
    IF data.kind = "dict"
    THEN PyDict([i \in 1..Len(data.items) |->
                    PyItem(data.items[i].key, clean_nan_dicts_only(data.items[i].value))])
    ELSE IF data.kind = "float"
    THEN (IF isnan(data) \/ isinf(data) THEN PyNone ELSE data)
    ELSE data

\* clean_nan(data)
RECURSIVE clean_nan(_)
clean_nan(data) ==
    IF data.kind = "dict"
    THEN PyDict([i \in 1..Len(data.items) |->
                    PyItem(data.items[i].key, clean_nan(data.items[i].value))])
    ELSE IF data.kind = "list"
    THEN PyList([i \in 1..Len(data.items) |-> clean_nan(data.items[i])])
    ELSE IF data.kind = "float"
    THEN (IF isnan(data) \/ isinf(data) THEN PyNone ELSE data)
    ELSE data

MaxDepth == 2

\* the values without parts
Leaves == {PyNaN, PyInf, PyNegInf, PyFloat(9000), PyStr(<<"M","E","T","A">>), PyNone}

Shapes == {"v", "lv", "vl", "a", "ab", "ba"}

\* a list or dict of up to two parts around one value v, a leaf l on either
\* side of it
Around(shape, v, l) ==
    CASE shape = "v"  -> PyList(<<v>>)
      [] shape = "lv" -> PyList(<<l, v>>)
      [] shape = "vl" -> PyList(<<v, l>>)
      [] shape = "a"  -> PyDict(<<PyItem("a", v)>>)
      [] shape = "ab" -> PyDict(<<PyItem("a", l), PyItem("b", v)>>)
      [] shape = "ba" -> PyDict(<<PyItem("b", v), PyItem("a", l)>>)

\* the values nested at most d deep
RECURSIVE Nested(_)
Nested(d) ==
    IF d = 0 THEN Leaves
    ELSE Leaves \cup {PyList(<<>>), PyDict(<<>>)}
         \cup {Around(s, v, l) : s \in Shapes, v \in Nested(d - 1), l \in Leaves}

\* the dict answer returns, with this relevance in its only citation
AnswerBody(relevance) ==
    PyDict(<< PyItem("question", PyStr(<<"I","s"," ","i","t"," ","o","k","?">>)),
              PyItem("answer", PyStr(<<"Y","e","s",".">>)),
              PyItem("citations",
                     PyList(<< PyDict(<< PyItem("source", PyStr(<<"M","E","T","A">>)),
                                         PyItem("section", PyStr(<<"d","o","c","u","m","e","n","t">>)),
                                         PyItem("url", PyStr(<<>>)),
                                         PyItem("relevance", relevance) >>) >>)),
              PyItem("graph_paths", PyList(<<>>)),
              PyItem("sources",
                     PyDict(<< PyItem("vector_results", PyInt(1)),
                               PyItem("graph_entities", PyInt(0)) >>)) >>)

Bodies == Nested(MaxDepth) \cup {AnswerBody(r) : r \in {PyNaN, PyInf, PyNegInf, PyFloat(9000)}}

\* graphrag_agent.answer has returned some body
InitClean ==
    /\ pc = "done"
    /\ question = <<>> /\ n_results = 0 /\ include_graph = FALSE
    /\ driver = FALSE /\ index = <<>> /\ nodes = <<>> /\ edges = <<>>
    /\ vector_context = <<>> /\ graph_context = <<>> /\ graph_paths = <<>>
    /\ keywords = <<>> /\ ki = 0 /\ entities = <<>> /\ paths = <<>>
    /\ full_context = <<>> /\ answer = <<>> /\ citations = <<>>
    /\ result \in Bodies
    /\ trace = <<>> /\ faults = {}
    /\ batch = <<>> /\ cursor = <<0, 0, 0>> /\ added = <<0, 0>> /\ stats = NoStats
    /\ calls = 0
    /\ writers = <<>> /\ origin = NoGraph
    /\ response = <<>>

\* graphrag_qa: result = clean_nan(result); return jsonify(result)
Respond ==
    /\ pc = "done"
    /\ response' = clean_nan(result)
    /\ pc' = "responded"
    /\ UNCHANGED <<Store, question, n_results, include_graph, vector_context,
                   graph_context, graph_paths, GraphLocals, full_context, answer,
                   citations, result, trace, faults, batch, cursor, added, stats,
                   calls, Concurrent>>

NextClean == Respond

SpecClean == InitClean /\ [][NextClean]_vars


----------------------------------------------------------------------------
(* _build_context on its own inputs                                        *)

\* an item of the entity list handed to _build_context
GraphEntity(type, data) == [type |-> type, data |-> data, source_type |-> "graph"]

\* the evidence lists _vector_search can hand over
EvidenceLists ==
    {vector_search(search(idx, n)) : idx \in Indexes, n \in 0..MaxResults}

\* entity lists: none, one company, entities of another type, six companies,
\* a company twice
EntityLists ==
    { <<>>,
      << GraphEntity("Company", MetaNode) >>,
      << GraphEntity("Sector", TechSector) >>,
      << GraphEntity("Sector", TechSector), GraphEntity("Company", AppleNode) >>,
      << GraphEntity("Company", AppleNode), GraphEntity("Company", AppleNode) >>,
      << GraphEntity("Company", MetaNode), GraphEntity("Company", AppleNode),
         GraphEntity("Company", TeslaNode), GraphEntity("Company", AppleByName),
         GraphEntity("Company", Described(<<"M","i","c","r","o","s","o","f","t">>, <<"M","S","F","T">>, <<"S","o","f","t","w","a","r","e">>)),
         GraphEntity("Company", NvidiaNode) >>,
      << GraphEntity("Company", MetaNode), GraphEntity("Industry", NetIndustry),
         GraphEntity("Company", AppleNode), GraphEntity("Sector", TechSector),
         GraphEntity("Company", TeslaNode), GraphEntity("Company", NvidiaNode) >>,
      << GraphEntity("Industry", NetIndustry), GraphEntity("Sector", TechSector) >> }

\* answer is about to call _build_context
InitContext ==
    /\ pc = "build"
    /\ question = <<>> /\ n_results = 0 /\ include_graph = FALSE
    /\ driver = FALSE /\ index = <<>> /\ nodes = <<>> /\ edges = <<>>
    /\ vector_context \in EvidenceLists
    /\ graph_context \in EntityLists
    /\ graph_paths = <<>>
    /\ keywords = <<>> /\ ki = 0 /\ entities = <<>> /\ paths = <<>>
    /\ full_context = <<>> /\ answer = <<>> /\ citations = <<>>
    /\ result = NoResult /\ trace = <<>> /\ faults = {}
    /\ batch = <<>> /\ cursor = <<0, 0, 0>> /\ added = <<0, 0>> /\ stats = NoStats
    /\ calls = 0
    /\ writers = <<>> /\ origin = NoGraph
    /\ response = <<>>

NextContext ==
    \/ BuildContext
    \/ BuildContextRaises

SpecContext == InitContext /\ [][NextContext]_vars

----------------------------------------------------------------------------
(* _extract_keywords on its own: questions built from a vocabulary         *)

MaxWords == 3

Vocabulary ==
    { <<"W","h","a","t">>, <<"a","r","e">>, <<"A","p","p","l","e","'","s">>, <<"m","a","i","n">>, <<"r","i","s","k","s","?">>, <<"A","I">>, <<"a",",","b",",","c">>,
      <<"?">>, <<"\t">>, <<"T","H","E">> }

\* " ".join(ws)
RECURSIVE JoinWords(_)
JoinWords(ws) ==
    IF ws = <<>> THEN <<>>
    ELSE IF Len(ws) = 1 THEN ws[1]
    ELSE ws[1] \o <<" ">> \o JoinWords(Tail(ws))

ExampleQuestion == <<"W","h","a","t"," ","a","r","e"," ","A","p","p","l","e","'","s"," ","m","a","i","n"," ","r","i","s","k","s","?">>

InitKeywords ==
    /\ pc = "idle"
    /\ \/ question = ExampleQuestion
       \/ \E n \in 0..MaxWords : \E ws \in [1..n -> Vocabulary] : question = JoinWords(ws)
    /\ n_results = 0 /\ include_graph = FALSE
    /\ driver = FALSE /\ index = <<>> /\ nodes = <<>> /\ edges = <<>>
    /\ FreshCall

\* _extract_keywords(question) returns
ExtractKeywords ==
    /\ pc = "idle"
    /\ keywords' = extract_keywords(question)
    /\ pc' = "keywords"
    /\ UNCHANGED <<Store, Ingest, faults, ki, entities, paths, question, n_results,
                   include_graph, vector_context, graph_context, graph_paths,
                   full_context, answer, citations, result, trace>>

NextKeywords == ExtractKeywords

SpecKeywords == InitKeywords /\ [][NextKeywords]_vars

\* the question, lowercased, without its '?' and ',' characters
Cleaned == RemoveChar(RemoveChar(Lower(question), "?"), ",")

\* the maximal runs of non-whitespace characters of s, as <<first, last>>
TokenSpans(s) ==
    {sp \in (1..Len(s)) \X (1..Len(s)) :
        /\ sp[1] <= sp[2]
        /\ \A i \in sp[1]..sp[2] : s[i] \notin Whitespace
        /\ (sp[1] = 1 \/ s[sp[1] - 1] \in Whitespace)
        /\ (sp[2] = Len(s) \/ s[sp[2] + 1] \in Whitespace)}

\* the runs that are longer than 2 characters and are no stopword
KeptSpans(s) ==
    {sp \in TokenSpans(s) :
        sp[2] - sp[1] + 1 > 2 /\ SubSeq(s, sp[1], sp[2]) \notin stopwords}

\* C4: the keywords are exactly the whitespace-separated tokens of the
\* lowercased question without '?' and ',', that are no stopword and are
\* longer than 2 characters, in their original order with duplicates kept;
\* "What are Apple's main risks?" yields ["apple's", "main", "risks"].
C4_KeywordsAreKeptTokens ==
    pc = "keywords" =>
        LET kept == KeptSpans(Cleaned)
        IN  /\ Len(keywords) = Cardinality(kept)
            /\ \A sp \in kept :
                  keywords[Cardinality({o \in kept : o[1] <= sp[1]})]
                      = SubSeq(Cleaned, sp[1], sp[2])
            /\ (question = ExampleQuestion
                  => keywords = << <<"a","p","p","l","e","'","s">>, <<"m","a","i","n">>, <<"r","i","s","k","s">> >>)

\* C4 witness: a question with a stopword, a short token, stripped
\* punctuation and a repeated keyword
C4_Witness ==
    /\ pc = "keywords"
    /\ question = <<"r","i","s","k","s","?"," ","A","I"," ","m","a","i","n">>
    /\ keywords = << <<"r","i","s","k","s">>, <<"m","a","i","n">> >>

----------------------------------------------------------------------------
(* Properties of answer                                                    *)

\* the external calls of one kind issued by the current call
CallsOf(op) == SelectSeq(trace, LAMBDA c : c.op = op)

\* the generative model was called and answered
Generated == CallsOf("generate") # <<>> /\ "generate" \notin faults

\* positions of the evidence items whose metadata is non-empty
WithMetadata == {i \in 1..Len(vector_context) : MetaTruthy(vector_context[i].metadata)}

\* position of the k-th evidence item whose metadata is non-empty
KthWithMetadata(k) ==
    CHOOSE i \in WithMetadata : Cardinality({j \in WithMetadata : j <= i}) = k

\* C1: whenever the vector evidence list and the graph entity list are both
\* empty, the call returns the fixed refusal text with an empty citation
\* list, and the generative model is not invoked in that call.
C1_EmptyContextRefuses ==
    (pc = "done" /\ vector_context = <<>> /\ graph_context = <<>>)
        => /\ answer = Refusal /\ citations = <<>>
           /\ result.answer = Refusal /\ result.citations = <<>>
           /\ CallsOf("generate") = <<>>

\* C1 witness: a call that searched the graph, found nothing in either
\* store, and returned
C1_Witness ==
    /\ pc = "done" /\ vector_context = <<>> /\ graph_context = <<>>
    /\ include_graph /\ driver /\ CallsOf("probe") # <<>>
    /\ answer = Refusal

\* the citation list has one entry per evidence item with non-empty
\* metadata, in the order of those items
CitationsFollowMetadata ==
    /\ Len(citations) = Cardinality(WithMetadata)
    /\ \A k \in 1..Len(citations) :
          LET ctx == vector_context[KthWithMetadata(k)]
          IN  /\ citations[k].source = Get(ctx.metadata, "ticker", <<"U","n","k","n","o","w","n">>)
              /\ citations[k].section = Get(ctx.metadata, "section", <<"d","o","c","u","m","e","n","t">>)
              /\ citations[k].url = Get(ctx.metadata, "url", <<>>)

\* C2 as stated: for every outcome of the generator, success or failure,
\* the citation list has one entry per evidence item with non-empty
\* metadata, in the same relative order.
C2_AsStated == pc = "done" => CitationsFollowMetadata

\* C2 as amended: when the generator was invoked and answered, the citation
\* list has one entry per evidence item with non-empty metadata, in the same
\* relative order; when it failed, or the refusal was returned, the list is
\* empty.
C2_CitationsWhenGenerated ==
    pc = "done" =>
        IF Generated THEN CitationsFollowMetadata ELSE citations = <<>>

\* C2 witness: the model answered over evidence with and without metadata
C2_Witness ==
    /\ pc = "done" /\ Generated
    /\ WithMetadata # {}
    /\ WithMetadata # 1..Len(vector_context)
    /\ Len(citations) < Len(vector_context)

\* C3: a call issues at most one relationship fetch, keyed by the first
\* matched entity's ticker; when the first matched entity has no ticker no
\* fetch is issued at all.
C3_SingleAnchor ==
    /\ Len(CallsOf("fetch")) <= 1
    /\ \A i \in 1..Len(CallsOf("fetch")) :
          entities # <<>> /\ CallsOf("fetch")[i].arg = entities[1].data.ticker
    /\ (entities # <<>> /\ ~Truthy(entities[1].data.ticker))
          => CallsOf("fetch") = <<>>

\* C3 witness: several entities with different tickers were matched and the
\* fetch was issued
C3_Witness ==
    /\ CallsOf("fetch") # <<>>
    /\ \E i \in 1..Len(entities) : entities[i].data.ticker # entities[1].data.ticker

\* the end-to-end scenario: the question about Meta, two META hits at
\* distances 0.1 and 0.4, a graph holding the META company in sector
\* Technology, graph search requested over a live connection, and no
\* external call failing
MetaScenario ==
    /\ question = <<"W","h","a","t"," ","a","r","e"," ","M","e","t","a","'","s"," ","m","a","i","n"," ","r","i","s","k","s","?">>
    /\ Len(vector_context) = 2
    /\ \A i \in 1..2 : index[i].meta.ticker = <<"M","E","T","A">>
    /\ index[1].dist = 1000 /\ index[2].dist = 4000
    /\ \E i \in 1..Len(nodes) :
          /\ nodes[i].label = CompanyLabel
          /\ nodes[i].ticker = <<"M","E","T","A">>
          /\ nodes[i].sector = <<"T","e","c","h","n","o","l","o","g","y">>
    /\ include_graph /\ driver
    /\ faults = {}

\* C6 as stated: in the end-to-end scenario the result counts 2 vector
\* results, the relevances are 0.9 and 0.6, and the assembled context holds
\* both a "[Source 1: META]" marker and a "Company: ..." block whose sector
\* is Technology.
C6_AsStated ==
    (pc = "done" /\ MetaScenario) =>
        /\ result.sources.vector_results = 2
        /\ Len(result.citations) = 2
        /\ result.citations[1].relevance = 9000
        /\ result.citations[2].relevance = 6000
        /\ Contains(full_context, <<"[","S","o","u","r","c","e"," ","1",":"," ","M","E","T","A","]">>)
        /\ Contains(full_context, <<"\n","C","o","m","p","a","n","y",":"," ">>)
        /\ Contains(full_context, <<"\n"," "," ","S","e","c","t","o","r",":"," ","T","e","c","h","n","o","l","o","g","y">>)

\* what the code does in the end-to-end scenario: the vector half of the
\* claim holds, and no company is matched by "meta's", "main" or "risks"
C6_Observed ==
    (pc = "done" /\ MetaScenario) =>
        /\ result.sources.vector_results = 2
        /\ result.citations[1].relevance = 9000
        /\ result.citations[2].relevance = 6000
        /\ Contains(full_context, <<"[","S","o","u","r","c","e"," ","1",":"," ","M","E","T","A","]">>)
        /\ keywords = << <<"m","e","t","a","'","s">>, <<"m","a","i","n">>, <<"r","i","s","k","s">> >>
        /\ result.sources.graph_entities = 0
        /\ ~Contains(full_context, <<"C","o","m","p","a","n","y",":"," ">>)

\* the document stored for hit i, as text ('' for a missing document)
StoredDoc(i) == IF Truthy(index[i].doc) THEN index[i].doc ELSE <<>>

\* what follows the content of evidence item i in the assembled context
AfterSource(i) ==
    IF i < Len(vector_context)
    THEN <<"\n","\n","[","S","o","u","r","c","e"," ">> \o IntToText(i + 1) \o <<":"," ">>
    ELSE IF graph_context # <<>> THEN <<"\n">> \o GraphHeader ELSE <<>>

\* the assembled context holds, from position p on, the marker of item i,
\* then exactly `content`, then whatever follows item i
SourceHolds(i, content, p) ==
    LET marker == <<"[","S","o","u","r","c","e"," ">> \o IntToText(i) \o <<":"," ">>
                    \o Str(SourceLabel(vector_context[i].metadata)) \o <<"]","\n">>
        block  == marker \o content \o AfterSource(i)
    IN  /\ OccursAt(full_context, block, p)
        /\ (AfterSource(i) = <<>> => p + Len(block) - 1 = Len(full_context))

\* C7: for a stored document of any length L, the content under its
\* [Source i] marker in the assembled context is exactly the first
\* min(L, 1500) units of the stored document.
C7_SourcePrefix ==
    pc \in {"generate", "done"} =>
        \A i \in 1..Len(vector_context) :
            LET L == Len(StoredDoc(i))
                kept == IF L < 1500 THEN L ELSE 1500
            IN  \E p \in 1..Len(full_context) :
                    /\ full_context[p] = "["
                    /\ SourceHolds(i, SubSeq(StoredDoc(i), 1, kept), p)

\* C7 witness: a context assembled from a 5000-unit document and a shorter
\* one
C7_Witness ==
    /\ pc = "done"
    /\ Len(vector_context) = 2
    /\ Len(StoredDoc(1)) = 5000
    /\ Len(StoredDoc(2)) < 2000 /\ Len(StoredDoc(2)) > 1500
    /\ Len(full_context) > 3000

\* r is x rounded to 3 decimals: a multiple of 0.001 nearest to x
IsRounded(r, x) ==
    /\ r % 10 = 0
    /\ 2 * (r - x) <= 10
    /\ 2 * (x - r) <= 10

\* C8 as stated: for every vector hit with distance d, the relevance of its
\* citation is round(1 - d, 3), and rounding it again leaves it unchanged.
C8_AsStated ==
    (pc = "done" /\ Generated) =>
        \A k \in 1..Len(citations) :
            LET hit == index[KthWithMetadata(k)]
            IN  hit.has_dist =>
                  /\ IsRounded(citations[k].relevance, Scale - hit.dist)
                  /\ IsRounded(citations[k].relevance, citations[k].relevance)

\* what the code does: the claim's formula for every distance but 0, and
\* relevance 0 for an exact match
C8_Observed ==
    (pc = "done" /\ Generated) =>
        \A k \in 1..Len(citations) :
            LET hit == index[KthWithMetadata(k)]
            IN  /\ (hit.has_dist /\ hit.dist # 0) =>
                      IsRounded(citations[k].relevance, Scale - hit.dist)
                /\ (hit.has_dist /\ hit.dist = 0) => citations[k].relevance = 0

\* citation c is derived from evidence item ctx
DerivedFrom(c, ctx) ==
    /\ c.source = Get(ctx.metadata, "ticker", <<"U","n","k","n","o","w","n">>)
    /\ c.section = Get(ctx.metadata, "section", <<"d","o","c","u","m","e","n","t">>)
    /\ c.url = Get(ctx.metadata, "url", <<>>)
    /\ IsRounded(c.relevance, ctx.relevance)

\* C9 as stated: for every answer the citation list and the vector evidence
\* list are equal-length and index-aligned.
C9_AsStated ==
    pc = "done" =>
        /\ Len(citations) = Len(vector_context)
        /\ \A i \in 1..Len(citations) : DerivedFrom(citations[i], vector_context[i])

\* C9 as amended: when the generator answered, the citation list is
\* equal-length and index-aligned with the evidence items whose metadata is
\* non-empty, taken in evidence order (hence with the whole evidence list
\* when every item has metadata); otherwise the citation list is empty.
C9_AlignedWithCitedEvidence ==
    pc = "done" =>
        LET cited == SelectSeq(vector_context, LAMBDA ctx : MetaTruthy(ctx.metadata))
        IN  IF Generated
            THEN /\ Len(result.citations) = Len(cited)
                 /\ \A i \in 1..Len(cited) : DerivedFrom(result.citations[i], cited[i])
                 /\ (Len(cited) = Len(vector_context)
                        => Len(result.citations) = Len(vector_context))
            ELSE result.citations = <<>>

\* C9 witness: the model answered over two evidence items that both have
\* metadata and differ in relevance
C9_Witness ==
    /\ pc = "done" /\ Generated
    /\ Len(vector_context) = 2
    /\ WithMetadata = {1, 2}
    /\ vector_context[1].relevance # vector_context[2].relevance
    /\ Len(citations) = 2

\* C10: every path of the result has as source the ticker of an entity that
\* the graph search of the same call returned; a graph search that failed
\* returns no path.
C10_PathsFromReturnedEntities ==
    /\ \A i \in 1..Len(graph_paths) :
          \E j \in 1..Len(graph_context) :
              graph_context[j].data.ticker = graph_paths[i].source
    /\ pc = "done" =>
          /\ result.graph_paths = graph_paths
          /\ result.sources.graph_entities = Len(graph_context)
          /\ (faults \cap {"session", "probe", "fetch"} # {}
                 => result.graph_paths = <<>>)

\* C10 witness: a result with paths, from a search that matched several
\* entities
C10_Witness ==
    /\ pc = "done"
    /\ Len(result.graph_paths) >= 2
    /\ Len(graph_context) >= 2

----------------------------------------------------------------------------
(* Properties of add_entities_to_graph                                     *)

\* the node upserts of the current call that did not raise
MergedNodes == SelectSeq(trace, LAMBDA c : c.op = "merge_node" /\ c.ok)

\* C5: however often the same entity (same type label and name) is merged,
\* in one batch or in successive calls, the graph holds exactly one node for
\* it, while entities_added counts one for each merge that did not fail.
C5_MergeKeepsOneNode ==
    /\ \A k \in 1..Len(MergedNodes) :
          Cardinality(Labelled(nodes, MergedNodes[k].arg[1], MergedNodes[k].arg[2])) = 1
    /\ pc = "ingest" => added[1] = Len(MergedNodes)
    /\ (pc = "ingested" /\ ~stats.error) => stats.entities_added = Len(MergedNodes)

\* C5 witness: Acme was merged by a first call and merged again by a second
\* call, which counted it once more and left one Acme node
C5_Witness ==
    /\ pc = "ingested" /\ calls = 2
    /\ batch = << Extraction(<<"d","o","c","1">>, <<Acme>>, <<>>) >>
    /\ stats.entities_added = 1
    /\ Len(nodes) = 2
    /\ nodes[1].name = <<"A","c","m","e">> /\ nodes[1].source = <<"d","o","c","1">>
    /\ nodes[2].name = <<"B","e","t","a">> /\ nodes[2].source = <<"d","o","c","2">>
    /\ Cardinality(Labelled(nodes, <<"O","R","G","A","N","I","Z","A","T","I","O","N">>, <<"A","c","m","e">>)) = 1

\* C5 witness of the single-batch case: one call merged Acme twice
C5_WitnessOneBatch ==
    /\ pc = "ingested" /\ calls = 1
    /\ stats.entities_added = 2
    /\ Len(nodes) = 1

\* ---------------------------------------------------------------------
\* Retrieval boundaries, step order and source counts of one answer call
\* ---------------------------------------------------------------------

\* the vector store answered the search of this call
Searched == \E i \in 1..Len(trace) : trace[i].op = "search" /\ trace[i].ok

C11_Observed ==
    Searched =>
        \A i \in 1..Len(vector_context) :
            vector_context[i].relevance =
                IF index[i].has_dist /\ index[i].dist # 0
                THEN Scale - index[i].dist ELSE 0

\* the graph store operations of _graph_search
GraphOps == {"session", "probe", "fetch"}

\* this step is a graph store operation of _graph_search that raised
GraphOpRaised ==
    /\ Len(trace') = Len(trace) + 1
    /\ trace'[Len(trace')].op \in GraphOps
    /\ ~trace'[Len(trace')].ok

\* C12: if any graph store operation fails during graphSearch (opening the
\* session, a keyword probe or the relationship fetch), graphSearch returns
\* the pair ([], []) and raises nothing, even when entities had already
\* been matched before the failure.
C12_GraphFailureYieldsEmptyPair ==
    [][GraphOpRaised =>
          /\ graph_context' = <<>>
          /\ graph_paths' = <<>>
          /\ pc' = "build"]_vars

\* the relationship fetch failed after entities were matched, and the call
\* went on with an empty pair
C12_Witness ==
    /\ pc = "build"
    /\ "fetch" \in faults
    /\ entities # <<>>
    /\ graph_context = <<>> /\ graph_paths = <<>>

\* the graph store operations performed so far in this call
GraphCalls == SelectSeq(trace, LAMBDA c : c.op \in GraphOps)

\* C13: when answer is called with includeGraph = false, or the graph
\* connection was recorded as unavailable at construction, no graph store
\* operation is performed during the call, and the result has empty
\* graphPaths and sourceCounts.graphEntities = 0.
C13_NoGraphAccessWhenOptedOut ==
    (pc # "idle" /\ (~include_graph \/ ~driver)) =>
        /\ GraphCalls = <<>>
        /\ graph_context = <<>> /\ graph_paths = <<>>
        /\ pc = "done" =>
              /\ result.graph_paths = <<>>
              /\ result.sources.graph_entities = 0

\* a call that asked for the graph, over a graph that holds a company the
\* question names, returned without graph access: no connection was recorded
C13_Witness ==
    /\ pc = "done"
    /\ include_graph /\ ~driver
    /\ \E k \in 1..Len(extract_keywords(question)) :
          ProbeEntities(nodes, extract_keywords(question)[k]) # <<>>
    /\ result.sources.graph_entities = 0
    /\ result.sources.vector_results > 0

\* C14: if the vector store search fails, vectorSearch returns an empty list
\* without raising, and answer still goes on to graph search, context
\* assembly and synthesis and returns an AnswerResult with
\* sourceCounts.vectorResults = 0 and no citations.
C14_VectorFailureDegrades ==
    "search" \in faults =>
        /\ vector_context = <<>>
        /\ pc \in {"graph", "probe", "build", "generate", "done"}
        /\ pc \in {"build", "generate", "done"} =>
              (GraphWanted <=> GraphCalls # <<>>)
        /\ pc \in {"generate", "done"} =>
              full_context = build_context(<<>>, graph_context)
        /\ pc = "done" =>
              /\ result.sources.vector_results = 0
              /\ result.citations = <<>>
              /\ result.sources.graph_entities = Len(graph_context)
              /\ result.answer = Refusal \/ CallsOf("generate") # <<>>

\* the vector store failed over a non-empty index, the graph search still
\* matched entities and the model answered from them
C14_Witness ==
    /\ pc = "done"
    /\ "search" \in faults
    /\ index # <<>>
    /\ graph_context # <<>>
    /\ Generated

\* C15: if the generative model call fails (or its response cannot be read),
\* synthesize raises nothing and returns an answer text that embeds the
\* error string together with an empty citation list; answer still returns a
\* complete AnswerResult whose graphPaths and sourceCounts reflect the
\* retrieval already done.
C15_GeneratorFailureIsAnswerText ==
    "generate" \in faults =>
        /\ pc = "done"
        /\ \E o \in LLMOutcomes :
              /\ ~o.ok
              /\ answer = ErrorPrefix \o o.text
              /\ Contains(result.answer, o.text)
        /\ citations = <<>>
        /\ result = [question    |-> question,
                     answer      |-> answer,
                     citations   |-> <<>>,
                     graph_paths |-> graph_paths,
                     sources     |-> [vector_results |-> Len(vector_context),
                                      graph_entities |-> Len(graph_context)]]

\* the model call failed after retrieval found evidence with metadata,
\* entities and paths
C15_Witness ==
    /\ pc = "done"
    /\ "generate" \in faults
    /\ WithMetadata # {}
    /\ result.sources.graph_entities > 0
    /\ result.graph_paths # <<>>

\* the place of each external operation in the sequence of one answer call
OpRank(op) ==
    CASE op = "search"   -> 1
      [] op = "session"  -> 2
      [] op = "probe"    -> 3
      [] op = "fetch"    -> 4
      [] op = "generate" -> 5

\* C16: within one answer call the steps happen in a fixed order: the vector
\* search completes before any graph probe starts, every graph operation
\* completes before context assembly, and the generator is invoked only
\* after the context is assembled; graph search runs if and only if
\* includeGraph is true and a graph connection is live.
C16_StepsInFixedOrder ==
    pc # "idle" =>
        /\ \A i, j \in 1..Len(trace) :
              i < j => /\ OpRank(trace[i].op) <= OpRank(trace[j].op)
                       /\ trace[j].op # "probe" => trace[i].op # trace[j].op
        /\ pc = "vector" => trace = <<>>
        /\ pc # "vector" => trace # <<>> /\ trace[1].op = "search"
        /\ GraphCalls # <<>> => pc \in {"probe", "build", "generate", "done", "raised"}
        /\ pc \in {"vector", "graph", "probe", "build"} =>
              full_context = <<>> /\ CallsOf("generate") = <<>>
        /\ pc \in {"generate", "done"} =>
              full_context = build_context(vector_context, graph_context)
        /\ CallsOf("generate") # <<>> =>
              /\ pc = "done"
              /\ trace[Len(trace)].op = "generate"
              /\ trace[Len(trace)].arg = Prompt(question, full_context)
        /\ pc \in {"build", "generate", "done", "raised"} =>
              (GraphCalls # <<>> <=> (include_graph /\ driver))

\* a call went through the vector search, the session, several probes, the
\* relationship fetch, the assembly and the generator
C16_Witness ==
    /\ pc = "done"
    /\ Len(CallsOf("probe")) >= 2
    /\ CallsOf("fetch") # <<>>
    /\ faults = {}
    /\ Generated

\* the number of entities the successful probes of the call matched
RECURSIVE MatchedBy(_)
MatchedBy(probes) ==
    IF probes = <<>> THEN 0
    ELSE Len(ProbeEntities(nodes, Head(probes).arg)) + MatchedBy(Tail(probes))

\* C17: in every AnswerResult, sourceCounts.vectorResults equals the number
\* of evidence items vectorSearch returned and sourceCounts.graphEntities
\* equals the number of entities graphSearch returned (possibly more than 5,
\* with repeats), independent of the 5-entity cap, the 1500-unit content
\* cap and the 6000-unit prompt cap applied afterwards, and independent of
\* whether synthesis succeeded.
C17_SourceCountsAreRawCounts ==
    pc = "done" =>
        /\ result.sources.vector_results =
              (IF Searched THEN Len(search(index, n_results)) ELSE 0)
        /\ result.sources.graph_entities =
              (IF GraphCalls # <<>> /\ faults \cap GraphOps = {}
               THEN MatchedBy(CallsOf("probe")) ELSE 0)

\* more entities than the entity cap, evidence longer than the content cap,
\* a context longer than the prompt cap, and a failed synthesis
C17_Witness ==
    /\ pc = "done"
    /\ result.sources.graph_entities > MaxEntities
    /\ \E i, j \in 1..Len(graph_context) : i # j /\ graph_context[i] = graph_context[j]
    /\ \E i \in 1..Len(vector_context) : Len(vector_context[i].content) > MaxSource
    /\ Len(full_context) > MaxPrompt
    /\ "generate" \in faults

\* the same counts after a synthesis that succeeded over a context longer
\* than the prompt cap
C17_WitnessLongContext ==
    /\ pc = "done"
    /\ Len(full_context) > MaxPrompt
    /\ result.sources.vector_results = 3
    /\ result.sources.graph_entities > MaxEntities
    /\ Generated

----------------------------------------------------------------------------
(* Ingestion: failures, the missing connection, interleaved batches        *)

\* the calls of one kind that did not raise
OkCalls(op) == SelectSeq(trace, LAMBDA c : c.op = op /\ c.ok)

\* the entities and relations of an extraction that reach an upsert
NamedEntities(x) == SelectSeq(x.entities, LAMBDA e : Truthy(EntityName(e)))
NamedRelations(x) ==
    SelectSeq(x.relations, LAMBDA r : Truthy(RelSource(r)) /\ Truthy(RelTarget(r)))

RECURSIVE CountNamed(_, _)
CountNamed(b, phase) ==
    IF b = <<>> THEN 0
    ELSE (IF phase = 1 THEN Len(NamedEntities(Head(b)))
                       ELSE Len(NamedRelations(Head(b))))
         + CountNamed(Tail(b), phase)

\* every item of the batch was processed and the counts are those of the
\* upserts that did not fail
BatchCompleted ==
    /\ Len(CallsOf("merge_node")) = CountNamed(batch, 1)
    /\ Len(CallsOf("merge_edge")) = CountNamed(batch, 2)
    /\ stats.entities_added = Len(OkCalls("merge_node"))
    /\ stats.relations_added = Len(OkCalls("merge_edge"))

\* C18 as stated: a single entity or relation that cannot be upserted never
\* stops the batch: once the session is open the call returns counts rather
\* than raising, every later item is still processed, and the counts are
\* exactly the items whose upsert did not fail.
C18_AsStated ==
    /\ pc = "raised" => "session" \in faults
    /\ (pc = "ingested" /\ ~stats.error) => BatchCompleted

\* what the code does: the same, except that a relation whose type is None
\* raises out of the call at that relation, with the rest of the batch
\* unprocessed and no counts returned
C18_Observed ==
    /\ pc = "raised" =>
          \/ "session" \in faults
          \/ /\ cursor[1] <= Len(batch) /\ cursor[2] = 2
             /\ RelType(ThisRelation) = NONE
             /\ After(batch, cursor)[1] <= Len(batch)
             /\ stats = NoStats
    /\ (pc = "ingested" /\ ~stats.error) => BatchCompleted

\* C19: when no graph connection exists, mergeExtractions returns an {error}
\* result immediately for every input batch, performs no graph store
\* operation, and leaves the graph unchanged.
C19_NoConnectionNoIngestion ==
    [][~driver =>
          /\ nodes' = nodes /\ edges' = edges
          /\ trace' = <<>>
          /\ (pc = "idle" /\ pc' # "idle") =>
                /\ pc' = "ingested"
                /\ stats'.error
                /\ stats'.entities_added = 0 /\ stats'.relations_added = 0]_vars

\* a batch with entities and relations to upsert was handed to an agent
\* without connection and came back as an error
C19_Witness ==
    /\ pc = "ingested"
    /\ ~driver
    /\ stats.error
    /\ CountNamed(batch, 1) > 0 /\ CountNamed(batch, 2) > 0
    /\ trace = <<>>

\* a graph without positions and timestamps: every node with its key and
\* its provenance, every relationship with the keys of its two ends
GraphView(g) ==
    [nodes |-> {[label |-> g.nodes[i].label, name |-> g.nodes[i].name,
                 source |-> g.nodes[i].source] : i \in 1..Len(g.nodes)},
     edges |-> {<<g.nodes[g.edges[k].src].label, g.nodes[g.edges[k].src].name,
                  g.edges[k].rel,
                  g.nodes[g.edges[k].dst].label, g.nodes[g.edges[k].dst].name>> :
                k \in 1..Len(g.edges)}]

NodeKeys(g) == {<<g.nodes[i].label, g.nodes[i].name>> : i \in 1..Len(g.nodes)}

\* both concurrent calls are over
Settled ==
    /\ writers # <<>>
    /\ \A w \in WriterIds : writers[w].pc \in {"ingested", "raised"}

\* the graph after the two batches ran one after the other
OneAfterTheOther ==
    RunBatch(RunBatch(origin, writers[1].batch), writers[2].batch)

\* C20 as stated: for any two ingestion batches whose upserts interleave in
\* any order (or that run one after the other in either order), the final
\* graph is the same: the same nodes with the same provenance and the same
\* edges, apart from the last-updated timestamps.
C20_AsStated ==
    Settled =>
        GraphView([nodes |-> nodes, edges |-> edges]) = GraphView(OneAfterTheOther)

\* what the code guarantees: the same node keys in every order; the
\* provenance of a node is that of the last call that merged it, and a
\* relationship exists only if both ends existed when its query ran
C20_Observed ==
    Settled =>
        /\ NodeKeys([nodes |-> nodes, edges |-> edges]) = NodeKeys(OneAfterTheOther)
        /\ \A i \in 1..Len(nodes) :
              \/ \E j \in 1..Len(origin.nodes) : origin.nodes[j] = nodes[i]
              \/ \E w \in WriterIds :
                    \E x \in 1..Len(writers[w].batch) :
                        nodes[i].source = SourceOf(writers[w].batch[x])


----------------------------------------------------------------------------
(* Malformed upstream data, retries, frame of answer                       *)

\* C21 as stated: when the vector store returns partially-shaped data (a hit
\* whose metadata is null or missing, or whose document is null), answer
\* does not abort: it raises nothing and still returns an AnswerResult.
C21_AsStated == pc # "raised"

\* what the code does: a null document and an empty metadata are absorbed,
\* and answer raises exactly when some hit carries a null metadata
C21_Observed ==
    /\ pc = "raised" => \E i \in 1..Len(vector_context) : vector_context[i].metadata.none
    /\ (pc \in {"generate", "done"}) =>
          \A i \in 1..Len(vector_context) : ~vector_context[i].metadata.none
    /\ (pc = "done" /\ Searched) =>
          \A i \in 1..Len(vector_context) :
              ~Truthy(index[i].doc) => vector_context[i].content = <<>>

\* C22: no external call is retried: in one answer call the vector store
\* search is invoked exactly once, each of the at most 5 keywords is probed
\* at most once, the relationship fetch is issued at most once, and the
\* generator is invoked at most once; after any of these calls fails it is
\* not invoked again in that answer.
C22_NoRetries ==
    pc # "idle" =>
        /\ Len(CallsOf("search")) = (IF pc = "vector" THEN 0 ELSE 1)
        /\ Len(CallsOf("session")) <= 1
        /\ Len(CallsOf("fetch")) <= 1
        /\ Len(CallsOf("generate")) <= 1
        /\ Len(CallsOf("probe")) <= MaxKeywords
        /\ Len(CallsOf("probe")) <= Len(keywords)
        /\ \A k \in 1..Len(CallsOf("probe")) : CallsOf("probe")[k].arg = keywords[k]
        /\ \A i, j \in 1..Len(trace) :
              (i < j /\ ~trace[i].ok) => trace[j].op # trace[i].op

\* a call over a question with more than 5 keywords in which the first
\* probe failed and later the generator failed, each issued once
C22_Witness ==
    /\ pc = "done"
    /\ Len(keywords) > MaxKeywords
    /\ "probe" \in faults /\ Len(CallsOf("probe")) = 1
    /\ "generate" \in faults /\ Len(CallsOf("generate")) = 1

\* a call in which all 5 probes and the fetch were issued
C22_WitnessAllProbes ==
    /\ pc = "done"
    /\ Len(keywords) > MaxKeywords
    /\ Len(CallsOf("probe")) = MaxKeywords
    /\ Len(CallsOf("fetch")) = 1

\* C23: answer is read-only and stateless: after any sequence of answer
\* calls (successful or failing), the agent's graph connection, the graph
\* store contents and the vector index contents are unchanged, and a call
\* starts from nothing an earlier call left behind.
C23_AnswerIsReadOnly ==
    [][/\ driver' = driver
       /\ index' = index
       /\ nodes' = nodes
       /\ edges' = edges
       /\ pc' = "vector" =>
             /\ vector_context' = <<>> /\ graph_context' = <<>> /\ graph_paths' = <<>>
             /\ keywords' = <<>> /\ entities' = <<>> /\ paths' = <<>>
             /\ full_context' = <<>> /\ citations' = <<>> /\ result' = NoResult
             /\ trace' = <<>> /\ faults' = {}]_vars

\* a call that searched the index, probed the graph, fetched paths and got
\* an answer over populated stores
C23_Witness ==
    /\ pc = "done"
    /\ index # <<>> /\ nodes # <<>> /\ edges # <<>>
    /\ result.sources.vector_results > 0
    /\ result.sources.graph_entities > 0
    /\ result.graph_paths # <<>>
    /\ Generated /\ faults = {}

\* a call that raised over populated stores
C23_WitnessRaised ==
    /\ pc = "raised"
    /\ index # <<>> /\ nodes # <<>>
    /\ entities # <<>>

----------------------------------------------------------------------------
(* The body of the QA response                                             *)

\* some float that is NaN or infinite occurs in v, at any depth
RECURSIVE HasNonFinite(_)
HasNonFinite(v) ==
    \/ v.kind = "float" /\ v.special # ""
    \/ v.kind = "list" /\ \E i \in 1..Len(v.items) : HasNonFinite(v.items[i])
    \/ v.kind = "dict" /\ \E i \in 1..Len(v.items) : HasNonFinite(v.items[i].value)

\* w is v with null in place of every non-finite float and nothing else
\* changed: same keys, same order, same other values
RECURSIVE NulledOnly(_, _)
NulledOnly(v, w) ==
    IF v.kind = "float" /\ v.special # "" THEN w = PyNone
    ELSE IF v.kind = "list"
    THEN /\ w.kind = "list" /\ Len(w.items) = Len(v.items)
         /\ \A i \in 1..Len(v.items) : NulledOnly(v.items[i], w.items[i])
    ELSE IF v.kind = "dict"
    THEN /\ w.kind = "dict" /\ Len(w.items) = Len(v.items)
         /\ \A i \in 1..Len(v.items) :
               /\ w.items[i].key = v.items[i].key
               /\ NulledOnly(v.items[i].value, w.items[i].value)
    ELSE w = v

\* C24: the result returned to the caller of the QA endpoint contains no
\* non-finite number: for every nested structure of mappings and lists,
\* clean_nan replaces every NaN and every +/-infinity at any depth by null
\* and leaves every other value, key and list order unchanged.
C24_ResponseHasNoNonFinite ==
    pc = "responded" =>
        /\ ~HasNonFinite(response)
        /\ NulledOnly(result, response)

\* an answer whose only citation carries a NaN relevance was cleaned
C24_Witness ==
    /\ pc = "responded"
    /\ result = AnswerBody(PyNaN)
    /\ response = AnswerBody(PyNone)

\* an infinity two levels down, in a list inside a dict, beside a finite
\* float that was kept
C24_WitnessNested ==
    /\ pc = "responded"
    /\ result = PyDict(<<PyItem("a", PyFloat(9000)),
                         PyItem("b", PyList(<<PyNegInf, PyFloat(9000)>>))>>)
    /\ response = PyDict(<<PyItem("a", PyFloat(9000)),
                           PyItem("b", PyList(<<PyNone, PyFloat(9000)>>))>>)

----------------------------------------------------------------------------
(* Shape of the graph search result, of the context and of the prompt      *)

\* graphSearch returned what it collected
GraphReturned ==
    /\ pc \in {"build", "generate", "done", "raised"}
    /\ GraphCalls # <<>>
    /\ faults \cap GraphOps = {}

\* positions of the Company nodes that keyword k matches
MatchedAt(k) == {i \in 1..Len(nodes) : NodeMatches(nodes[i], keywords[k])}

\* the n smallest members of a set of positions, in increasing order
RECURSIVE Smallest(_, _)
Smallest(S, n) ==
    IF n = 0 \/ S = {} THEN <<>>
    ELSE LET m == CHOOSE x \in S : \A y \in S : x <= y
         IN  <<m>> \o Smallest(S \ {m}, n - 1)

\* number of entities the keywords before k contributed
RECURSIVE EntitiesBefore(_)
EntitiesBefore(k) ==
    IF k <= 1 THEN 0
    ELSE EntitiesBefore(k - 1) + Min(ProbeLimit, Cardinality(MatchedAt(k - 1)))

\* C25: for every question and graph content, graphSearch probes only the
\* first 5 extracted keywords, in keyword order, appends at most 3 entities
\* per keyword without deduplication (so at most 15 entities, ordered by
\* keyword then store order), and returns at most 10 paths.
C25_GraphSearchCaps ==
    GraphReturned =>
        /\ Len(CallsOf("probe")) = Min(Len(keywords), 5)
        /\ \A k \in 1..Len(CallsOf("probe")) : CallsOf("probe")[k].arg = keywords[k]
        /\ Len(graph_context) <= 15
        /\ Len(graph_context) = EntitiesBefore(Len(CallsOf("probe")) + 1)
        /\ \A k \in 1..Len(CallsOf("probe")) :
              LET at == Smallest(MatchedAt(k), 3)
              IN  \A j \in 1..Len(at) :
                      /\ graph_context[EntitiesBefore(k) + j].data = nodes[at[j]]
                      /\ graph_context[EntitiesBefore(k) + j].type = "Company"
        /\ Len(graph_paths) <= 10

\* a keyword matched four companies and three were appended, one of them
\* for the second time, and the anchor had eleven relationships of which
\* ten were returned
C25_Witness ==
    /\ GraphReturned
    /\ \E k \in 1..Len(CallsOf("probe")) : Cardinality(MatchedAt(k)) > 3
    /\ \E i, j \in 1..Len(graph_context) : i # j /\ graph_context[i] = graph_context[j]
    /\ Len(graph_paths) = 10
    /\ Len(OutgoingEdges(nodes, edges, AnchorTicker(graph_context))) = 10
    /\ Cardinality({k \in 1..Len(edges) : edges[k].src = 1}) > 10

\* a question with seven keywords: the sixth matches companies and was not
\* probed
C25_WitnessSixthKeyword ==
    /\ GraphReturned
    /\ Len(keywords) > 5
    /\ MatchedAt(6) # {}
    /\ Len(CallsOf("probe")) = 5

\* the positions at which pat occurs in s
Occurrences(s, pat) == {p \in 1..Len(s) : OccursAt(s, pat, p)}

\* the first position at which pat occurs in s (0 when it does not occur)
FirstAt(s, pat) ==
    IF Occurrences(s, pat) = {} THEN 0
    ELSE CHOOSE p \in Occurrences(s, pat) : \A q \in Occurrences(s, pat) : p <= q

\* the label the claim gives evidence item i: [Source i: <ticker, else section>]
ClaimedMarker(i, meta) ==
    <<"[","S","o","u","r","c","e"," ">> \o IntToText(i) \o <<":"," ">>
        \o (IF meta.ticker # ABSENT THEN meta.ticker ELSE meta.section) \o <<"]">>

\* the first 5 entities, and among them those of type Company
Rendered == {i \in 1..Min(Len(graph_context), 5) : graph_context[i].type = "Company"}

\* C26: buildContext produces a deterministic layout: the document zone
\* (when vector evidence is non-empty) precedes the knowledge-graph zone
\* (when graph entities are non-empty); the i-th evidence item, counting from
\* 1 in input order, is labelled [Source i: <ticker, else section>]; at most
\* the first 5 entities are rendered and only those of type Company; and the
\* result is the empty string exactly when both inputs are empty.
C26_ContextLayout ==
    pc = "generate" =>
        /\ full_context = <<>> <=> (vector_context = <<>> /\ graph_context = <<>>)
        /\ (vector_context # <<>>) <=> FirstAt(full_context, DocumentHeader) = 1
        /\ (vector_context = <<>>) => ~Contains(full_context, <<"[","S","o","u","r","c","e"," ">>)
        /\ (graph_context # <<>>) <=> Contains(full_context, <<"=","=","="," ","K","N","O","W","L","E","D","G","E"," ","G","R","A","P","H"," ","C","O","N","T","E","X","T"," ","=","=","=">>)
        /\ Cardinality(Occurrences(full_context, <<"=","=","="," ","K","N","O","W","L","E","D","G","E"," ","G","R","A","P","H"," ","C","O","N","T","E","X","T"," ","=","=","=">>)) <= 1
        /\ \A i \in 1..Len(vector_context) :
              LET meta == vector_context[i].metadata
              IN  /\ Cardinality(Occurrences(full_context,
                                     <<"\n","[","S","o","u","r","c","e"," ">> \o IntToText(i) \o <<":"," ">>)) = 1
                  /\ (meta.ticker # ABSENT \/ meta.section # ABSENT) =>
                        OccursAt(full_context, ClaimedMarker(i, meta),
                                 FirstAt(full_context,
                                         <<"[","S","o","u","r","c","e"," ">> \o IntToText(i) \o <<":"," ">>))
                  /\ i > 1 =>
                        FirstAt(full_context, <<"[","S","o","u","r","c","e"," ">> \o IntToText(i - 1) \o <<":"," ">>)
                          < FirstAt(full_context, <<"[","S","o","u","r","c","e"," ">> \o IntToText(i) \o <<":"," ">>)
                  /\ graph_context # <<>> =>
                        FirstAt(full_context, <<"[","S","o","u","r","c","e"," ">> \o IntToText(i) \o <<":"," ">>)
                          < FirstAt(full_context, <<"=","=","="," ","K","N","O","W","L","E","D","G","E"," ","G","R","A","P","H"," ","C","O","N","T","E","X","T"," ","=","=","=">>)
        /\ Cardinality(Occurrences(full_context, <<"\n","C","o","m","p","a","n","y",":"," ">>)) = Cardinality(Rendered)
        /\ \A p \in Occurrences(full_context, <<"\n","C","o","m","p","a","n","y",":"," ">>) :
              p > FirstAt(full_context, <<"=","=","="," ","K","N","O","W","L","E","D","G","E"," ","G","R","A","P","H"," ","C","O","N","T","E","X","T"," ","=","=","=">>)
        /\ \A i \in Rendered :
              Contains(full_context, <<"\n","C","o","m","p","a","n","y",":"," ">> \o graph_context[i].data.name)
        /\ \A i \in 1..Len(graph_context) :
              (i > 5 /\ \A j \in Rendered : graph_context[j] # graph_context[i]) =>
                  ~Contains(full_context, <<"\n","C","o","m","p","a","n","y",":"," ">> \o graph_context[i].data.name)

\* both zones, three labelled evidence items, six entities of which the
\* first five hold three companies
C26_Witness ==
    /\ pc = "generate"
    /\ Len(vector_context) = 3
    /\ vector_context[3].metadata.ticker = ABSENT
    /\ vector_context[3].metadata.section # ABSENT
    /\ Len(graph_context) = 6
    /\ Cardinality(Rendered) = 3

\* evidence without entities, and entities of no rendered type without
\* evidence
C26_WitnessOneZone ==
    /\ pc = "generate"
    /\ vector_context = <<>>
    /\ graph_context # <<>> /\ Rendered = {}
    /\ full_context # <<>>

\* the prompts handed to the generative model in this call
Prompts == {CallsOf("generate")[k].arg : k \in 1..Len(CallsOf("generate"))}

\* C27: for every non-empty assembled context of length L, the context text
\* embedded in the generator prompt is exactly the first min(L, 6000) units
\* of the assembled context (prefix retained, nothing reordered or
\* inserted), and the prompt also contains the unmodified question.
C27_PromptEmbedsContextPrefix ==
    \A prompt \in Prompts :
        LET h == Len(PromptHead)
            m == Min(Len(full_context), 6000)
            q == Len(PromptQuestion) + Len(question)
        IN  /\ full_context # <<>>
            /\ SubSeq(prompt, 1, h) = PromptHead
            /\ SubSeq(prompt, h + 1, h + m) = SubSeq(full_context, 1, m)
            /\ SubSeq(prompt, h + m + 1, h + m + q) = PromptQuestion \o question
            /\ SubSeq(prompt, h + m + q + 1, Len(prompt)) = PromptTail

\* a context longer than 6000 units went into a prompt
C27_Witness ==
    /\ pc = "done"
    /\ Prompts # {}
    /\ Len(full_context) > 6000
    /\ full_context[6000] # full_context[Len(full_context)]

\* a context shorter than 6000 units went into a prompt whole
C27_WitnessShort ==
    /\ pc = "done"
    /\ Prompts # {}
    /\ Len(full_context) < 6000
    /\ \E prompt \in Prompts : Contains(prompt, full_context \o PromptQuestion)

\* the marker of evidence item i lies inside the first 6000 units of the
\* assembled context, the part submitted in the prompt
Surfaced(i) ==
    LET marker == <<"[","S","o","u","r","c","e"," ">> \o IntToText(i) \o <<":"," ">>
    IN  /\ FirstAt(full_context, marker) > 0
        /\ FirstAt(full_context, marker) + Len(marker) - 1 <= 6000

\* C28 as stated: every citation returned by answer belongs to a vector
\* evidence item that was actually surfaced to the generator: the
\* [Source i] marker of its evidence item lies inside the (6000-unit
\* truncated) context that was submitted in the prompt.
C28_AsStated ==
    (pc = "done" /\ Generated) =>
        \A k \in 1..Len(citations) : Surfaced(KthWithMetadata(k))

\* what the code does: every evidence item with metadata is cited, and its
\* marker lies in the assembled context, within the first 6000 units or not
C28_Observed ==
    (pc = "done" /\ Generated) =>
        /\ Len(citations) = Cardinality(WithMetadata)
        /\ \A k \in 1..Len(citations) :
              Contains(full_context,
                       <<"[","S","o","u","r","c","e"," ">> \o IntToText(KthWithMetadata(k)) \o <<":"," ">>)

----------------------------------------------------------------------------
(* Relationships created by add_entities_to_graph                          *)

\* some relationship <<s, rel, t>> by node names is in the graph
EdgeBetween(ns, es, s, rel, t) ==
    \E k \in 1..Len(es) :
        /\ ns[es[k].src].name = s
        /\ es[k].rel = rel
        /\ ns[es[k].dst].name = t

\* C29 as stated: after mergeExtractions returns, every relation it counted
\* in relationsAdded exists in the graph: a directed edge with the
\* normalized label from a node named sourceName to a node named
\* targetName, including when the endpoint nodes were not among the batch's
\* entities or are only merged by a later extraction of the same batch.
C29_AsStated ==
    (pc = "ingested" /\ ~stats.error) =>
        /\ stats.relations_added = Len(OkCalls("merge_edge"))
        /\ \A k \in 1..Len(OkCalls("merge_edge")) :
              LET r == OkCalls("merge_edge")[k].arg
              IN  EdgeBetween(nodes, edges, r[1], r[2], r[3])

\* this step is a relationship query that did not raise
RelationCounted ==
    /\ Len(trace') = Len(trace) + 1
    /\ trace'[Len(trace')].op = "merge_edge"
    /\ trace'[Len(trace')].ok

\* what the code does: the relation is counted whenever its query does not
\* raise, and the edge exists afterwards exactly when a node with the
\* source name and a node with the target name existed when the query ran
C29_Observed ==
    [][RelationCounted =>
          LET r == trace'[Len(trace')].arg
          IN  /\ added'[2] = added[2] + 1
              /\ EdgeBetween(nodes', edges', r[1], r[2], r[3])
                    <=> /\ \E i \in 1..Len(nodes) : nodes[i].name = r[1]
                        /\ \E j \in 1..Len(nodes) : nodes[j].name = r[3]]_vars

\* C30 as stated: after any sequence of mergeExtractions calls, merging one
\* relation {sourceName, relationType, targetName} has created at most one
\* edge, joining exactly one source node to exactly one target node, even
\* when the same name has been merged under two different entity type
\* labels.
C30_AsStated ==
    \A k1, k2 \in 1..Len(edges) :
        (/\ edges[k1].rel = edges[k2].rel
         /\ nodes[edges[k1].src].name = nodes[edges[k2].src].name
         /\ nodes[edges[k1].dst].name = nodes[edges[k2].dst].name) => k1 = k2

\* what the code does: one edge per pair of a node with the source name and
\* a node with the target name, whatever their labels, and never two edges
\* of one type between the same two nodes
C30_Observed ==
    [][RelationCounted =>
          LET r == trace'[Len(trace')].arg
          IN  \A i, j \in 1..Len(nodes) :
                  (nodes[i].name = r[1] /\ nodes[j].name = r[3]) =>
                      Cardinality({k \in 1..Len(edges') :
                                      edges'[k] = Edge(i, r[2], j)}) = 1]_vars

====
